---- MODULE Spec2Model ----
(***************************************************************************)
(* Verification model of the brewos firmware.                              *)
(*                                                                         *)
(* Part 1: the serial bootloader / OTA pipeline of the controller MCU      *)
(* (src/src/pico/src/bootloader.c).  The application core runs             *)
(* bootloader_prepare, bootloader_receive_firmware, copy_firmware_to_main  *)
(* and, on an error return, bootloader_exit; the control core parks in     *)
(* bootloader_core0_loop.  The display MCU (the sender) is the             *)
(* environment: it puts frames on the UART.                                *)
(*                                                                         *)
(* Data representation.  A byte is a number 0..255.  A 32-bit word is the  *)
(* tuple of its four bytes, least significant first (the values            *)
(* 0xFFFFFFFF and 0xEDB88320 do not fit the model checker's integers).     *)
(* A flash region is the sequence of its bytes up to the last byte that    *)
(* is not 0xFF; every byte behind it reads 0xFF (erased).                  *)
(***************************************************************************)
EXTENDS Integers, Sequences, FiniteSets, TLC

(***************************************************************************)
(* Bounds of the model.                                                    *)
(***************************************************************************)
\* Items outside the protocol (corrupted, cut short, misnumbered, stray)
\* the sender puts on the wire during one OTA session.
MaxFaults == 1
\* Read time-outs after which the per-chunk deadline of
\* receive_chunk_header (BOOTLOADER_CHUNK_TIMEOUT_MS) has passed.
ChunkTimeoutTicks == 2
\* Clock ticks of the overall deadline (BOOTLOADER_TIMEOUT_MS).  The clock
\* advances one tick with every read time-out and with every chunk that
\* comes over the line.
OverallTimeoutTicks == 2

\* The largest number of flash sectors of a staged image that is copied.
MaxSectors == 3

(***************************************************************************)
(* Program constants.                                                      *)
(***************************************************************************)
BOOTLOADER_MAGIC_1 == 85
BOOTLOADER_MAGIC_2 == 170
BOOTLOADER_END_MAGIC_1 == 170
BOOTLOADER_END_MAGIC_2 == 85
BOOTLOADER_CHUNK_MAX_SIZE == 256
FLASH_TARGET_OFFSET == 1572864
FLASH_MAIN_OFFSET == 0
FLASH_PAGE_SIZE == 256
FLASH_SECTOR_SIZE == 4096
FIRMWARE_PRELOAD_BUFFER_SIZE == 131072
MAX_FIRMWARE_SIZE == 1048576
MAX_SECTOR_COUNT == 256
\* bootloader_result_t (bootloader.h); the checksum code is the 0x03 of the
\* specification's corrupted-chunk scenario.
BOOTLOADER_ERROR_TIMEOUT == 1
BOOTLOADER_ERROR_INVALID_SIZE == 2
BOOTLOADER_ERROR_CHECKSUM == 3
BOOTLOADER_ERROR_FLASH_WRITE == 4
BOOTLOADER_ERROR_FLASH_ERASE == 5

\* power_meter.c.
UART_TX_PIN_DEFAULT == 6
UART_RX_PIN_DEFAULT == 7
MODBUS_FC_READ_HOLDING_REGS == 3
MODBUS_FC_READ_INPUT_REGS == 4
PIN_ROTATE_THRESHOLD == 3
METER_MAPS_COUNT == 5
\* meter_index 0xFF: auto-detect; last_configured_meter 0xFF: none yet.
METER_INDEX_AUTO == 255
\* current_map == NULL.
NULL_MAP == -1
\* The longest response receive_modbus_response takes: sizeof(response_buffer).
RESPONSE_BUFFER_SIZE == 128

(***************************************************************************)
(* Bytes and 32-bit words.                                                 *)
(***************************************************************************)
\* Bit w (a power of two) of a ^ b and of a & b.
XorBit(a, b, w) == (((a \div w) + (b \div w)) % 2) * w
AndBit(a, b, w) == (((a \div w) % 2) * ((b \div w) % 2)) * w

\* The two operations on nibbles, tabulated (index = value + 1).
NibXor ==
    [a \in 1..16 |-> [b \in 1..16 |->
        XorBit(a - 1, b - 1, 1) + XorBit(a - 1, b - 1, 2)
        + XorBit(a - 1, b - 1, 4) + XorBit(a - 1, b - 1, 8)]]
NibAnd ==
    [a \in 1..16 |-> [b \in 1..16 |->
        AndBit(a - 1, b - 1, 1) + AndBit(a - 1, b - 1, 2)
        + AndBit(a - 1, b - 1, 4) + AndBit(a - 1, b - 1, 8)]]

\* a ^ b and a & b on bytes.
Xor8(a, b) ==
    NibXor[(a \div 16) + 1][(b \div 16) + 1] * 16 + NibXor[(a % 16) + 1][(b % 16) + 1]
And8(a, b) ==
    NibAnd[(a \div 16) + 1][(b \div 16) + 1] * 16 + NibAnd[(a % 16) + 1][(b % 16) + 1]

\* x >> 1 and ~x on 32-bit words (little-endian byte tuples).
Shr1(x) ==
    <<(x[1] \div 2) + 128 * (x[2] % 2), (x[2] \div 2) + 128 * (x[3] % 2),
      (x[3] \div 2) + 128 * (x[4] % 2), x[4] \div 2>>
Not32(x) ==
    LET of[w \in Seq(Nat)] == <<255 - w[1], 255 - w[2], 255 - w[3], 255 - w[4]>>
    IN  of[x]

\* The little-endian bytes of n (n < 2^31) as a 32-bit and a 16-bit field.
LE32(n) == <<n % 256, (n \div 256) % 256, (n \div 65536) % 256, (n \div 16777216) % 256>>
LE16(n) == <<n % 256, (n \div 256) % 256>>
\* h[0] | (h[1]<<8) for a 16-bit field.
U16(lo, hi) == lo + 256 * hi

U32_ALL_ONES == <<255, 255, 255, 255>>
CRC32_POLYNOMIAL == <<32, 131, 184, 237>>

\* w ^ 0xEDB88320 byte by byte, tabulated (index = value + 1).
XorPolynomial ==
    [i \in 1..4 |-> [b \in 1..256 |-> Xor8(b - 1, CRC32_POLYNOMIAL[i])]]

\* One round of the CRC loop: if (crc & 1) crc = (crc >> 1) ^ poly; else crc >>= 1.
CrcBit(c) ==
    IF c[1] % 2 = 1
    THEN <<XorPolynomial[1][(c[1] \div 2) + 128 * (c[2] % 2) + 1],
           XorPolynomial[2][(c[2] \div 2) + 128 * (c[3] % 2) + 1],
           XorPolynomial[3][(c[3] \div 2) + 128 * (c[4] % 2) + 1],
           XorPolynomial[4][(c[4] \div 2) + 1]>>
    ELSE Shr1(c)

\* crc ^= byte; then the eight rounds.
CrcByte(c, b) ==
    LET round[w \in Seq(Nat)] == CrcBit(w)
    IN  round[round[round[round[round[round[round[round[
            <<Xor8(c[1], b), c[2], c[3], c[4]>>]]]]]]]]

\* The running CRC c after the bytes of data, in order: the bytes lo..hi
\* are taken as lo..mid, then mid+1..hi.
CrcUpdate(c, data) ==
    LET over[d \in Seq(Nat)] ==
            LET run[x \in Seq(Nat) \X Nat \X Nat] ==
                    IF x[2] > x[3] THEN x[1]
                    ELSE IF x[2] = x[3] THEN CrcByte(x[1], d[x[2]])
                    ELSE run[<<run[<<x[1], x[2], (x[2] + x[3]) \div 2>>],
                               ((x[2] + x[3]) \div 2) + 1, x[3]>>]
            IN  run[<<c, 1, Len(d)>>]
    IN  over[data]

\* crc32_calculate: initial value 0xFFFFFFFF, final complement.
crc32_calculate(data) == Not32(CrcUpdate(U32_ALL_ONES, data))

\* calc ^= buffer[i] over the bytes of data (receive_chunk_data).
XorChecksum(data) ==
    LET over[d \in Seq(Nat)] ==
            LET run[x \in Nat \X Nat \X Nat] ==
                    IF x[2] > x[3] THEN x[1]
                    ELSE IF x[2] = x[3] THEN Xor8(x[1], d[x[2]])
                    ELSE run[<<run[<<x[1], x[2], (x[2] + x[3]) \div 2>>],
                               ((x[2] + x[3]) \div 2) + 1, x[3]>>]
            IN  run[<<0, 1, Len(d)>>]
    IN  over[data]

(***************************************************************************)
(* Flash regions.                                                          *)
(***************************************************************************)
\* The byte at 0-based index k of region f.
FlashByte(f, k) == IF k < Len(f) THEN f[k + 1] ELSE 255

\* The canonical form of a byte sequence: its trailing 0xFF bytes dropped.
Strip(s) ==
    LET of[q \in Seq(Nat)] ==
            SubSeq(q, 1, IF \A j \in 1..Len(q) : q[j] = 255 THEN 0
                         ELSE CHOOSE i \in 1..Len(q) :
                                  q[i] # 255 /\ \A j \in (i + 1)..Len(q) : q[j] = 255)
    IN  of[s]

\* The region after its bytes [from, from + len) are erased to 0xFF.
EraseRange(f, from, len) ==
    LET of[g \in Seq(Nat)] ==
            Strip([k \in 1..Len(g) |->
                      IF k - 1 >= from /\ k - 1 < from + len THEN 255 ELSE g[k]])
    IN  of[f]

\* The region after data is programmed at from: NOR flash clears bits only,
\* a byte becomes the old value AND the data.
ProgramRange(f, from, data) ==
    LET of[x \in Seq(Nat) \X Seq(Nat)] ==
            Strip([k \in 1..(IF from + Len(x[2]) > Len(x[1]) THEN from + Len(x[2])
                             ELSE Len(x[1])) |->
                      IF k - 1 >= from /\ k - 1 < from + Len(x[2])
                      THEN And8(FlashByte(x[1], k - 1), x[2][k - from])
                      ELSE FlashByte(x[1], k - 1)])
    IN  of[<<f, data>>]

\* The bytes [0, n) of region f.
ReadRange(f, n) ==
    IF n <= Len(f) THEN SubSeq(f, 1, n) ELSE f \o [k \in 1..(n - Len(f)) |-> 255]

\* data padded with 0xFF to n bytes (memset(..., 0xFF, ...)).
PadFF(data, n) == [k \in 1..n |-> IF k <= Len(data) THEN data[k] ELSE 255]

(***************************************************************************)
(* The wire format of the sender (the display MCU).                        *)
(***************************************************************************)
\* Chunk: 0x55 0xAA | seq_le32 | len_le16 | payload[len] | xor8.
ChunkFrame(seq32, len, payload, csum) ==
    <<BOOTLOADER_MAGIC_1, BOOTLOADER_MAGIC_2>> \o seq32 \o LE16(len) \o payload \o <<csum>>

\* End of stream as a full chunk frame: sequence 0xFFFFFFFF, two data bytes
\* 0xAA 0x55 and their checksum 0xFF.
EndChunkFrame ==
    ChunkFrame(U32_ALL_ONES, 2, <<BOOTLOADER_END_MAGIC_1, BOOTLOADER_END_MAGIC_2>>,
               XorChecksum(<<BOOTLOADER_END_MAGIC_1, BOOTLOADER_END_MAGIC_2>>))

\* End of stream as the bare marker.
BareEndMarker == <<BOOTLOADER_END_MAGIC_1, BOOTLOADER_END_MAGIC_2>>

\* Expected CRC packet: 0xAA 0x55 | crc32_le.
CrcPacket(c32) == <<170, 85>> \o c32

\* Payloads the sender draws from: a vector table with a stack pointer in
\* RAM (0x20......) and a reset handler in flash (0x10......), an image with
\* a bad stack pointer, a single byte, and a full page that starts with
\* valid vectors.  VecOld is the image a previous session left in staging.
VecGood == <<0, 16, 0, 32, 1, 1, 0, 16>>
VecOld  == <<0, 32, 0, 32, 1, 2, 0, 16>>
VecBad  == <<0, 16, 0, 0, 1, 1, 0, 16>>
Tiny    == <<7>>
FullPage ==
    [k \in 1..FLASH_PAGE_SIZE |-> IF k <= 8 THEN VecGood[k] ELSE (k * 7) % 256] \o <<>>
PayloadNames == {"good", "bad", "tiny", "page"}
PayloadBytes(n) ==
    CASE n = "good" -> VecGood
      [] n = "bad"  -> VecBad
      [] n = "tiny" -> Tiny
      [] n = "page" -> FullPage

\* What the staging region may hold when the session starts: erased flash,
\* or the image a previous session left there.
InitialStaging == {<<>>, VecOld}

\* The sender's own XOR checksum of each payload.
PayloadChecksum == [n \in PayloadNames |-> XorChecksum(PayloadBytes(n))]

\* The image made of the payloads named in ns, in order.
ImageOf(ns) ==
    LET upTo[k \in 0..Len(ns)] ==
            IF k = 0 THEN <<>> ELSE upTo[k - 1] \o PayloadBytes(ns[k])
    IN  upTo[Len(ns)]

\* The images the sender may hold, as the payloads of their chunks.
Images == {<<"bad">>, <<"good", "tiny">>, <<"page", "tiny">>}
\* The sender that does not stop: after the chunks of this image it goes on
\* with valid chunks, numbered in sequence, for as long as they are taken.
EndlessImage == <<"good", "tiny">>
\* No more chunks than this are taken before the overall deadline.
MaxChunks == OverallTimeoutTicks + 1

\* The payload of the sender's next chunk after those named in sentNames.
NextPayloads(image, sentNames) ==
    IF Len(sentNames) < Len(image) THEN {image[Len(sentNames) + 1]}
    ELSE IF image = EndlessImage /\ Len(sentNames) < MaxChunks THEN {"tiny"}
    ELSE {}

\* The sender's CRC32 of every sequence of chunks it can have sent.
ImageCrc ==
    [ns \in UNION {{SubSeq(im, 1, n) : n \in 0..Len(im)} : im \in Images}
            \cup {EndlessImage \o [k \in 1..n |-> "tiny"] : n \in 1..MaxChunks} |->
        crc32_calculate(ImageOf(ns))]
OldImageCrc == crc32_calculate(VecOld)

\* What the sender may put on the wire.  It sends the chunks of its image
\* in order, numbered from 0, then (or earlier) an end of stream in either
\* dialect, then a CRC packet with the CRC of what it sent or of another
\* image, and stops.  Among the chunks there may be faults: a chunk numbered
\* above ("skip") or below ("repeat") its turn, a chunk with a wrong
\* checksum, a header with a length of 0 or above the maximum, a header or
\* a chunk cut short, and stray bytes.
FaultKinds == {"skip", "repeat", "bad_csum", "zero_len", "over_len", "cut_chunk",
               "cut_header", "stray", "stray_magic", "stray_end"}
\* Faults after the end of stream: a lone 0xAA and a CRC packet cut short.
LateFaultKinds == {"stray_aa", "cut_crc"}
EndKinds == {"end_chunk", "bare_end"}
CrcKinds == {"crc_sent", "crc_other"}
SenderItems(phase, image, sentNames, faults) ==
    CASE phase = "chunks" ->
            [kind : {"chunk"}, p : NextPayloads(image, sentNames)]
            \cup [kind : IF faults < MaxFaults THEN FaultKinds ELSE {}, p : {"tiny"}]
            \cup [kind : EndKinds, p : {"tiny"}]
      [] phase = "ended" ->
            [kind : CrcKinds, p : {"tiny"}]
            \cup [kind : IF faults < MaxFaults THEN LateFaultKinds ELSE {}, p : {"tiny"}]
      [] OTHER -> {}
PhaseAfter(phase, it) ==
    IF it.kind \in EndKinds THEN "ended"
    ELSE IF it.kind \in CrcKinds THEN "done" ELSE phase

\* The bytes ahead in the RX FIFO as runs <<item number, kind, bytes>>.
RECURSIVE RunsDrop(_, _)
RunsDrop(runs, n) ==
    IF n = 0 \/ runs = <<>> THEN runs
    ELSE IF Head(runs)[3] <= n THEN RunsDrop(Tail(runs), n - Head(runs)[3])
    ELSE <<<<Head(runs)[1], Head(runs)[2], Head(runs)[3] - n>>>> \o Tail(runs)

\* <<item number, kind>> of the k-th byte ahead.
RECURSIVE ItemAt(_, _)
ItemAt(runs, k) ==
    IF k <= Head(runs)[3] THEN <<Head(runs)[1], Head(runs)[2]>>
    ELSE ItemAt(Tail(runs), k - Head(runs)[3])

\* The bytes of an item, the sender having sent the payloads named in ns.
ItemBytes(it, ns) ==
    LET next == LE32(Len(ns)) IN
    CASE it.kind = "chunk" ->
            ChunkFrame(next, Len(PayloadBytes(it.p)), PayloadBytes(it.p),
                       PayloadChecksum[it.p])
      [] it.kind = "skip" ->
            ChunkFrame(LE32(Len(ns) + 1), Len(Tiny), Tiny, PayloadChecksum["tiny"])
      [] it.kind = "repeat" ->
            ChunkFrame(LE32(IF Len(ns) > 0 THEN Len(ns) - 1 ELSE 2), Len(Tiny), Tiny,
                       PayloadChecksum["tiny"])
      [] it.kind = "bad_csum" ->
            ChunkFrame(next, Len(Tiny), Tiny, (PayloadChecksum["tiny"] + 1) % 256)
      [] it.kind = "zero_len" -> ChunkFrame(next, 0, <<>>, 0)
      [] it.kind = "over_len" -> ChunkFrame(next, BOOTLOADER_CHUNK_MAX_SIZE + 1, <<>>, 0)
      [] it.kind = "cut_chunk" ->
            <<BOOTLOADER_MAGIC_1, BOOTLOADER_MAGIC_2>> \o next \o LE16(4) \o <<1, 2>>
      [] it.kind = "cut_header" -> <<BOOTLOADER_MAGIC_1, BOOTLOADER_MAGIC_2, 0, 0, 0>>
      [] it.kind = "stray" -> <<0>>
      [] it.kind = "stray_magic" -> <<BOOTLOADER_MAGIC_1>>
      [] it.kind = "stray_end" -> <<BOOTLOADER_END_MAGIC_1, 0>>
      [] it.kind = "stray_aa" -> <<170>>
      [] it.kind = "cut_crc" -> <<170, 85, 1, 2>>
      [] it.kind = "end_chunk" -> EndChunkFrame
      [] it.kind = "bare_end" -> BareEndMarker
      [] it.kind = "crc_sent" -> CrcPacket(ImageCrc[ns])
      [] it.kind = "crc_other" -> CrcPacket(OldImageCrc)

\* debug_marker: 0xDB, the marker, the value's low and high byte.
debug_marker(marker, value) == <<219, marker, value % 256, (value \div 256) % 256>>

(***************************************************************************)
(* State.                                                                  *)
(***************************************************************************)
VARIABLES
    pc,                  \* position of the application core in the OTA path
    core0,               \* control core: "main" or "parked" (bootloader_core0_loop)
    g_bootloader_active,
    g_receiving,
    g_received_size,
    g_chunk_count,
    safe_state,          \* safety_enter_safe_state() has run
    decoder_reset,       \* protocol_reset_state() has run
    uart_irq,            \* UART interrupts enabled
    watchdog,            \* hardware watchdog enabled
    rx,                  \* bytes on their way to, or in, the UART RX FIFO
    tx,                  \* bytes written to the UART, oldest first
    sender_image,        \* the image the sender holds
    sent_count,          \* items the sender has put on the wire
    sent_faults,         \* those among them that are faults
    sender_phase,        \* "chunks", "ended" (end of stream sent), "done"
    sent_names,          \* payload names of the data chunks sent, in order
    rx_item,             \* the bytes of rx as runs <<item number, kind, bytes>>
    end_item,            \* <<number, kind>> of the item read as end of stream
    end_overrun,         \* a byte sent after that item was taken with it
    running_crc,
    page_buffer,         \* page_buffer[0 .. page_buffer_offset)
    current_page_start,
    current_sector,
    sector_erased,
    chunk_num,
    chunk_size,
    hdr_waits,           \* read time-outs since receive_chunk_header started
    elapsed,             \* read time-outs since start_time
    drain_left,          \* bytes the end-frame drain loop has still to read
    valid_sp,
    valid_pc,
    crc,
    expectedCRC32,
    receivedExpectedCRC,
    result,              \* value returned by bootloader_receive_firmware
    staging,             \* flash from FLASH_TARGET_OFFSET on
    main_ops,            \* erase and program operations on the active region
    preload,             \* g_firmware_preload_buffer[0 .. padded_size)
    copy_i,              \* sector index of the copy loop
    xip_exited,          \* g_xip_exited
    irq_disabled         \* interrupts disabled on the application core

endVars == <<end_item, end_overrun>>
handoffVars == <<g_bootloader_active, safe_state, decoder_reset>>
senderOwn == <<sender_image, sent_count, sent_faults, sender_phase, sent_names>>
senderVars == <<senderOwn, endVars>>
uartRx == <<rx, rx_item>>
counterVars == <<g_receiving, g_received_size, g_chunk_count>>
pageVars == <<page_buffer, current_page_start, current_sector, sector_erased>>
headerVars == <<chunk_num, chunk_size, hdr_waits, elapsed, drain_left>>
checkVars == <<valid_sp, valid_pc, crc, expectedCRC32, receivedExpectedCRC>>
copyVars == <<main_ops, preload, copy_i, xip_exited, irq_disabled>>
otaVars == <<pc, core0, handoffVars, senderVars, counterVars, pageVars, headerVars,
             checkVars, copyVars, uart_irq, watchdog, uartRx, tx, running_crc, result,
             staging>>

\* The state of the other parts of the firmware, one record per part.
VARIABLES
    pm,                  \* the statics of power_meter.c and the position of its callers
    mq,                  \* the MQTTPowerMeter object, millis() and the last result of read()
    det,                 \* the StatusChangeDetector object and its last call
    mgr,                 \* the PowerMeterManager object, millis() and the wall clock
    pid,                 \* g_pid of the PID tests and its last call
    flt,                 \* a moving_avg_filter_t, the samples given to it and its last result
    sens,                \* the statics of sensors.c and its last sensors_read call
    rcv,                 \* where the chunk loop of bootloader_receive_firmware writes
    sv                   \* the pending save of the power meter configuration

\* power_meter.c after boot: its statics as initialised, both callers
\* outside the driver.  The fields after consecutive_failures are the PIO
\* UART's pins, the clock, the locals and the position of the packet
\* handler's core in power_meter_init / power_meter_auto_detect and of the
\* polling core in power_meter_update, and the number of polls in a row that
\* ended without a reading while the pins stayed as they are.
PowerMeterStatics ==
    [uart_tx_pin |-> UART_TX_PIN_DEFAULT,
     uart_rx_pin |-> UART_RX_PIN_DEFAULT,
     pins_swapped |-> FALSE,
     last_configured_meter |-> METER_INDEX_AUTO,
     initialized |-> FALSE,
     has_ever_read |-> FALSE,
     current_map |-> NULL_MAP,
     last_reading |-> [valid |-> FALSE, voltage |-> 0, timestamp |-> 0],
     last_success_time |-> 0,
     current_config |-> [enabled |-> FALSE, meter_index |-> 0],
     consecutive_failures |-> 0,
     last_error |-> "",
     pio_tx_pin |-> UART_TX_PIN_DEFAULT,
     pio_rx_pin |-> UART_RX_PIN_DEFAULT,
     now |-> 0,
     init_pc |-> "idle",
     config |-> [given |-> FALSE, enabled |-> FALSE, meter_index |-> 0],
     meter_changed |-> FALSE,
     i |-> 0,
     pin_try |-> 0,
     init_result |-> TRUE,
     detect_buffer |-> <<>>,
     upd_pc |-> "idle",
     response_buffer |-> <<>>,
     failures |-> 0,
     old_tx |-> 0,
     request |-> NULL_MAP,
     failed_polls |-> 0]

\* The reading of all zeros the MQTTPowerMeter constructor leaves; of a
\* reading the power (W), the voltage (V), the current (mA), the time stamp
\* and the valid flag are kept.
NoReading == [power |-> 0, voltage |-> 0, current |-> 0, timestamp |-> 0, valid |-> FALSE]

\* MQTTPowerMeter(topic, format): the members as the constructor leaves
\* them.  handled records the kind of the last message handled, lwt_said
\* what the last recognised LWT payload said, lwt_seen whether any LWT
\* message has come, parsed_once whether a payload has been parsed.
MQTTPowerMeter(format) ==
    [_format |-> IF format \in {"shelly", "tasmota", "generic"} THEN format ELSE "auto",
     _lastUpdateTime |-> 0,
     _hasData |-> FALSE,
     _deviceOnline |-> TRUE,
     _lastError |-> "",
     _lastReading |-> NoReading,
     _jsonPathPower |-> "",
     _jsonPathVoltage |-> "",
     _jsonPathCurrent |-> "",
     handled |-> "nothing",
     lwt_said |-> "nothing",
     lwt_seen |-> FALSE,
     parsed_once |-> FALSE]

\* A float that is a number, in the fixed-point unit of its field (tenths
\* of a degree, hundredths of a bar, tenths of a gram, hundredths of a
\* ml/s), and the float that is not a number.
Float(n) == <<n>>
NaN == <<>>

\* The snapshot of all zeros of memset(&_previous, 0, sizeof(ui_state_t)).
ZeroSnapshot ==
    [machine_state |-> 0, heating_strategy |-> 0, is_heating |-> FALSE,
     is_brewing |-> FALSE, brew_temp |-> Float(0), brew_setpoint |-> Float(0),
     steam_temp |-> Float(0), steam_setpoint |-> Float(0),
     group_temp |-> Float(0), pressure |-> Float(0), power_watts |-> 0,
     brew_time_ms |-> 0, brew_weight |-> Float(0), flow_rate |-> Float(0),
     target_weight |-> Float(0),
     pico_connected |-> FALSE, wifi_connected |-> FALSE, mqtt_connected |-> FALSE,
     scale_connected |-> FALSE, cloud_connected |-> FALSE, water_low |-> FALSE,
     alarm_active |-> FALSE, alarm_code |-> 0, cleaning_reminder |-> FALSE,
     brew_count |-> 0, wifi_rssi |-> 0, wifi_ap_mode |-> FALSE, wifi_ip |-> ""]

\* StatusChangeDetector(): the members as the constructor leaves them.  Of
\* the last hasChanged call the model keeps the snapshot it was given
\* (current), the stored snapshot it was compared with (before), what it
\* returned, and how it came: "none" when no call has returned since the
\* construction or the last reset, "first" on a detector not yet
\* initialised, "repeat" with the snapshot of the call right before it when
\* that call returned true, "other" otherwise; drift says that the call
\* came after one that returned false for another snapshot, from which the
\* snapshot of this call differs in nothing that counts as a change.  Of a
\* getChangedFields call that was the last step (queried) it keeps the
\* snapshot given (asked) and the groups marked in what it returned (fields).
StatusChangeDetector ==
    [_initialized |-> FALSE,
     _previous |-> ZeroSnapshot,
     current |-> ZeroSnapshot,
     before |-> ZeroSnapshot,
     returned |-> FALSE,
     call |-> "none",
     drift |-> FALSE,
     queried |-> FALSE,
     asked |-> ZeroSnapshot,
     fields |-> {}]

\* PowerMeterManager(): the members as the constructor and the default
\* member initialisers leave them, energies in Wh.  has_meter says that
\* _mqttMeter is not null; millis is millis(); clock is the position of the
\* wall clock in WallClock; rolled says that the last step was a loop() that
\* reset the daily energy.
PowerMeterManager ==
    [_enabled |-> TRUE,
     has_meter |-> FALSE,
     _lastReading |-> [valid |-> FALSE, energy_import |-> 0],
     _lastReadTime |-> 0,
     _lastPollTime |-> 0,
     _dayStartKwh |-> 0,
     _lastDayOfYear |-> 0,
     _lastYear |-> 0,
     _dayStartSet |-> FALSE,
     millis |-> 0,
     clock |-> 1,
     rolled |-> FALSE]

\* pid_state_t g_pid of the PID tests, a static object: all zeros until
\* pid_init runs.  Its floats are in thousandths.
ZeroPid ==
    [kp |-> Float(0), ki |-> Float(0), kd |-> Float(0),
     setpoint |-> Float(0), setpoint_target |-> Float(0),
     integral |-> Float(0), last_error |-> Float(0),
     last_measurement |-> Float(0), last_derivative |-> Float(0),
     output |-> Float(0), setpoint_ramping |-> FALSE,
     ramp_rate |-> Float(0), first_run |-> FALSE]

\* The controller and its last call: st is *pid; call, present, measurement
\* and dt are the last function called and its arguments; before is *pid
\* when pid_compute was called; returned, p_term, i_term, d_term and sum are its
\* return value and locals; calls counts the pid_compute calls since
\* pid_init.
PidController ==
    [st |-> ZeroPid, call |-> "none", present |-> TRUE,
     measurement |-> Float(0), dt |-> Float(0), before |-> ZeroPid,
     returned |-> Float(0), p_term |-> Float(0), i_term |-> Float(0),
     d_term |-> Float(0), sum |-> Float(0), calls |-> 0]

\* A moving_avg_filter_t as filter_moving_avg_init leaves it: buffer is the
\* caller's array, of which the first count places written hold samples.
filter_moving_avg_init(size) ==
    [buffer |-> [i \in 1..size |-> 0], size |-> size, index |-> 0,
     count |-> 0, sum |-> 0]

\* The moving-average filter of the filter tests and its last call: pushed
\* is the samples given since the last init or reset, oldest first;
\* returned is the value of the last update.
MovingAverage ==
    [f |-> filter_moving_avg_init(3), call |-> "init", pushed |-> <<>>,
     returned |-> 0]

\* A median_filter_t as filter_median_init leaves it.
filter_median_init(size) ==
    [buffer |-> [i \in 1..size |-> 0], size |-> size, index |-> 0, count |-> 0]

\* One filtered channel of sensors.c before sensors_init: its fault flag,
\* its count of consecutive failures, its two filters (zeroed objects) and
\* its value in g_sensor_data.
ZeroChannel ==
    [fault |-> FALSE, error_count |-> 0, median |-> filter_median_init(0),
     avg |-> filter_moving_avg_init(0), stored |-> 0]

\* The channels of sensors.c and the last sensors_read call: initialised
\* says that sensors_init has run; pressure_pin says that the PCB has a
\* pressure input; varied names the channel whose samples vary in this run;
\* samples is what the three channels delivered in the last call, before
\* the channels when it began, and logged the channels whose ERROR line it
\* printed; reads counts the calls.
SensorStatics ==
    [initialised |-> FALSE, pressure_pin |-> FALSE, varied |-> "brew",
     ch |-> [c \in {"brew", "steam", "pressure"} |-> ZeroChannel],
     before |-> [c \in {"brew", "steam", "pressure"} |-> ZeroChannel],
     samples |-> [c \in {"brew", "steam", "pressure"} |-> [kind |-> "absent"]],
     logged |-> {}, call |-> "none", reads |-> 0]

\* The locals and counters of bootloader_receive_firmware that decide where
\* reception writes: phase is "idle" outside the function, "receiving" in
\* its chunk loop, "accepted" once the size checks have passed and the final
\* acknowledgement is sent, "rejected" after an error return, "installed"
\* once copy_firmware_to_main has copied the image and asked for the reset,
\* and "copy_returned" once it has returned instead; copied is the number
\* of sectors of the active region it has erased and programmed; erase and program are the flash offsets
\* erased and programmed by the last step, each an empty or one-element
\* sequence; chunk is the size of the chunks of the stream being received;
\* erased and written are the staging sectors that the session has erased
\* and those in which it has programmed a page.
ReceptionIdle ==
    [phase |-> "idle", page_buffer_offset |-> 0,
     current_page_start |-> FLASH_TARGET_OFFSET,
     current_sector |-> FLASH_TARGET_OFFSET \div FLASH_SECTOR_SIZE,
     sector_erased |-> FALSE, g_received_size |-> 0, g_chunk_count |-> 0,
     erase |-> <<>>, program |-> <<>>, chunk |-> BOOTLOADER_CHUNK_MAX_SIZE,
     copied |-> 0, erased |-> {}, written |-> {}]

\* The pending save of the power meter configuration: g_pending_save, the
\* position of power_meter_process_pending_save ("out" between calls, "clear"
\* after the test found the flag set, "save" after the flag was cleared), and
\* of the history: the number of requests made and of saves done, the saves
\* done by the present or last call, and whether a request has been made
\* that no later power_meter_save_config has followed.
PendingSaveStatics ==
    [g_pending_save |-> FALSE, pc |-> "out", requests |-> 0, saves |-> 0,
     call_saves |-> 0, unserved |-> FALSE, returned |-> FALSE]

\* What each part leaves alone.
outsideOta == <<pm, mq, det, mgr, pid, flt, sens, rcv, sv>>
outsideMeter == <<otaVars, mq, det, mgr, pid, flt, sens, rcv, sv>>
outsideMqtt == <<otaVars, pm, det, mgr, pid, flt, sens, rcv, sv>>
outsideDetector == <<otaVars, pm, mq, mgr, pid, flt, sens, rcv, sv>>
outsideManager == <<otaVars, pm, mq, det, pid, flt, sens, rcv, sv>>
outsidePid == <<otaVars, pm, mq, det, mgr, flt, sens, rcv, sv>>
outsideFilter == <<otaVars, pm, mq, det, mgr, pid, sens, rcv, sv>>
outsideSensors == <<otaVars, pm, mq, det, mgr, pid, flt, rcv, sv>>
outsideReception == <<otaVars, pm, mq, det, mgr, pid, flt, sens, sv>>
outsideSave == <<otaVars, pm, mq, det, mgr, pid, flt, sens, rcv>>
vars == <<otaVars, outsideOta>>

\* No value returned (yet): 0, BOOTLOADER_SUCCESS, is never returned.
NO_RESULT == 0
NO_ITEM == <<0, "none">>

\* The state after boot, in normal operation: statics zero-initialised, the
\* watchdog fed by the main loop, stray bytes possibly in the RX FIFO.
OtaInit ==
    /\ pc = "normal"
    /\ core0 = "main"
    /\ g_bootloader_active = FALSE
    /\ g_receiving = FALSE
    /\ g_received_size = 0
    /\ g_chunk_count = 0
    /\ safe_state = FALSE
    /\ decoder_reset = FALSE
    /\ uart_irq = TRUE
    /\ watchdog = TRUE
    /\ rx \in {<<>>, <<0>>}
    /\ rx_item = IF rx = <<>> THEN <<>> ELSE <<<<0, "none", Len(rx)>>>>
    /\ tx = <<>>
    /\ sender_image \in Images
    /\ sent_count = 0
    /\ sent_faults = 0
    /\ sender_phase = "chunks"
    /\ sent_names = <<>>
    /\ end_item = NO_ITEM
    /\ end_overrun = FALSE
    /\ running_crc = U32_ALL_ONES
    /\ page_buffer = <<>>
    /\ current_page_start = 0
    /\ current_sector = 0
    /\ sector_erased = FALSE
    /\ chunk_num = LE32(0)
    /\ chunk_size = 0
    /\ hdr_waits = 0
    /\ elapsed = 0
    /\ drain_left = 0
    /\ valid_sp = FALSE
    /\ valid_pc = FALSE
    /\ crc = LE32(0)
    /\ expectedCRC32 = LE32(0)
    /\ receivedExpectedCRC = FALSE
    /\ result = NO_RESULT
    /\ staging \in InitialStaging
    /\ main_ops = <<>>
    /\ preload = <<>>
    /\ copy_i = 0
    /\ xip_exited = FALSE
    /\ irq_disabled = FALSE
    /\ pm = PowerMeterStatics
    /\ mq = [meter |-> MQTTPowerMeter("auto"), now |-> 0, read_ok |-> FALSE]
    /\ det = StatusChangeDetector
    /\ mgr = PowerMeterManager
    /\ pid = PidController
    /\ flt = MovingAverage
    /\ sens = SensorStatics
    /\ rcv = ReceptionIdle
    /\ sv = PendingSaveStatics

(***************************************************************************)
(* bootloader_prepare, called by the command handler on "enter bootloader" *)
(***************************************************************************)
\* The command handler calls bootloader_prepare: from normal operation, or
\* again after an earlier call has returned.
PrepareEnter ==
    /\ pc \in {"normal", "prepared"}
    /\ pc' = "prep_check"
    /\ UNCHANGED <<core0, handoffVars, senderVars, counterVars, pageVars, headerVars,
                   checkVars, copyVars, uart_irq, watchdog, uartRx, tx, running_crc, result,
                   staging>>
    /\ UNCHANGED outsideOta

\* if (g_bootloader_active) return: a call while active returns at once.
PrepareCheck ==
    /\ pc = "prep_check"
    /\ pc' = IF g_bootloader_active THEN "prepared" ELSE "prep_safe"
    /\ UNCHANGED <<core0, handoffVars, senderVars, counterVars, pageVars, headerVars,
                   checkVars, copyVars, uart_irq, watchdog, uartRx, tx, running_crc, result,
                   staging>>
    /\ UNCHANGED outsideOta

\* Variant of the first step that raises the flag at once.
PrepareSafeStateSetsFlag ==
    /\ pc = "prep_safe"
    /\ safe_state' = TRUE
    /\ g_bootloader_active' = TRUE
    /\ pc' = "prep_drain"
    /\ UNCHANGED <<core0, decoder_reset, senderVars,
                   counterVars, pageVars, headerVars, checkVars, copyVars, uart_irq,
                   watchdog, uartRx, tx, running_crc, result, staging>>
    /\ UNCHANGED outsideOta
\* safety_enter_safe_state().
PrepareSafeState ==
    /\ pc = "prep_safe"
    /\ safe_state' = TRUE
    /\ pc' = "prep_drain"
    /\ UNCHANGED <<core0, g_bootloader_active, decoder_reset, senderVars,
                   counterVars, pageVars, headerVars, checkVars, copyVars, uart_irq,
                   watchdog, uartRx, tx, running_crc, result, staging>>
    /\ UNCHANGED outsideOta

\* while (uart_is_readable) uart_getc.
PrepareDrain ==
    /\ pc = "prep_drain"
    /\ rx' = <<>>
    /\ rx_item' = <<>>
    /\ pc' = "prep_reset"
    /\ UNCHANGED <<core0, handoffVars, senderVars, counterVars, pageVars, headerVars,
                   checkVars, copyVars, uart_irq, watchdog, tx, running_crc, result,
                   staging>>
    /\ UNCHANGED outsideOta

\* protocol_reset_state().
PrepareProtocolReset ==
    /\ pc = "prep_reset"
    /\ decoder_reset' = TRUE
    /\ pc' = "prep_flag"
    /\ UNCHANGED <<core0, g_bootloader_active, safe_state, senderVars,
                   counterVars, pageVars, headerVars, checkVars, copyVars, uart_irq,
                   watchdog, uartRx, tx, running_crc, result, staging>>
    /\ UNCHANGED outsideOta

\* g_bootloader_active = true, between the two barriers.
PrepareSetActive ==
    /\ pc = "prep_flag"
    /\ g_bootloader_active' = TRUE
    /\ pc' = "prep_final_drain"
    /\ UNCHANGED <<core0, safe_state, decoder_reset, senderVars,
                   counterVars, pageVars, headerVars, checkVars, copyVars, uart_irq,
                   watchdog, uartRx, tx, running_crc, result, staging>>
    /\ UNCHANGED outsideOta

\* sleep_ms(5) and the final drain.
PrepareFinalDrain ==
    /\ pc = "prep_final_drain"
    /\ rx' = <<>>
    /\ rx_item' = <<>>
    /\ pc' = "prepared"
    /\ UNCHANGED <<core0, handoffVars, senderVars, counterVars, pageVars, headerVars,
                   checkVars, copyVars, uart_irq, watchdog, tx, running_crc, result,
                   staging>>
    /\ UNCHANGED outsideOta

(***************************************************************************)
(* bootloader_core0_loop: the control core parks while the flag is set.    *)
(***************************************************************************)
\* The control core's main loop sees the flag and enters the RAM loop; its
\* period is far below the sleep_ms(5) that follows the flag's setting.
Core0Park ==
    /\ core0 = "main"
    /\ g_bootloader_active
    /\ pc \in {"prep_final_drain", "prepared"}
    /\ core0' = "parked"
    /\ UNCHANGED <<pc, handoffVars, senderVars, counterVars, pageVars, headerVars,
                   checkVars, copyVars, uart_irq, watchdog, uartRx, tx, running_crc, result,
                   staging>>
    /\ UNCHANGED outsideOta

\* One evaluation of while (g_bootloader_active): the loop is left, and
\* interrupts restored, only when the flag reads false.
Core0LoopTest ==
    /\ core0 = "parked"
    /\ pc # "booted"
    /\ core0' = IF g_bootloader_active THEN "parked" ELSE "main"
    /\ UNCHANGED <<pc, handoffVars, senderVars, counterVars, pageVars, headerVars,
                   checkVars, copyVars, uart_irq, watchdog, uartRx, tx, running_crc, result,
                   staging>>
    /\ UNCHANGED outsideOta


(***************************************************************************)
(* The UART as the application core reads it, and the sender.              *)
(***************************************************************************)
\* The first n bytes leave the RX FIFO.
Consume(n) ==
    /\ rx' = SubSeq(rx, n + 1, Len(rx))
    /\ rx_item' = RunsDrop(rx_item, n)

\* A read that times out takes what bytes there were.
ConsumeAll ==
    /\ rx' = <<>>
    /\ rx_item' = <<>>

\* The bytes the blocking read at each position waits for.
Need ==
    CASE pc \in {"hdr_b1", "hdr_b2", "end_b2", "end_b3", "drain_end",
                 "crc_b1", "crc_b2"} -> 1
      [] pc = "hdr_h6" -> 6
      [] pc = "chunk_data" -> chunk_size + 1
      [] pc = "crc_bytes" -> 4
      [] OTHER -> 0

\* The sender transmits one whole item while the receiver waits for bytes.
SenderSend ==
    /\ Len(rx) < Need
    /\ \E it \in SenderItems(sender_phase, sender_image, sent_names, sent_faults) :
         LET bytes == ItemBytes(it, sent_names) IN
         /\ sent_count' = sent_count + 1
         /\ sent_faults' = IF it.kind \in FaultKinds \cup LateFaultKinds
                           THEN sent_faults + 1 ELSE sent_faults
         /\ sender_phase' = PhaseAfter(sender_phase, it)
         /\ sent_names' = IF it.kind = "chunk" THEN Append(sent_names, it.p)
                          ELSE sent_names
         /\ rx' = rx \o bytes
         /\ rx_item' = Append(rx_item, <<sent_count + 1, it.kind, Len(bytes)>>)
    /\ UNCHANGED <<pc, core0, handoffVars, sender_image, endVars, counterVars, pageVars,
                   headerVars, checkVars, copyVars, uart_irq, watchdog, tx, running_crc,
                   result, staging>>
    /\ UNCHANGED outsideOta

\* bootloader_receive_firmware returns the error code, having written bytes.
ErrorReturn(code, bytes) ==
    /\ tx' = tx \o bytes
    /\ result' = code
    /\ pc' = "returned"

(***************************************************************************)
(* bootloader_receive_firmware: start and the overall time-out.            *)
(***************************************************************************)
\* Statics re-initialised, FIFO drained, UART interrupts off, watchdog on.
\* The control core has parked by now: bootloader_prepare slept 5 ms for it.
RxStart ==
    /\ pc = "prepared"
    /\ core0 = "parked"
    /\ tx' = tx \o debug_marker(187, 1)
    /\ g_receiving' = TRUE
    /\ g_received_size' = 0
    /\ g_chunk_count' = 0
    /\ running_crc' = U32_ALL_ONES
    /\ ConsumeAll
    /\ uart_irq' = FALSE
    /\ page_buffer' = <<>>
    /\ current_page_start' = FLASH_TARGET_OFFSET
    /\ current_sector' = FLASH_TARGET_OFFSET \div FLASH_SECTOR_SIZE
    /\ sector_erased' = FALSE
    /\ elapsed' = 0
    /\ watchdog' = TRUE
    /\ pc' = "loop_top"
    /\ UNCHANGED <<core0, handoffVars, senderVars, chunk_num, chunk_size, hdr_waits,
                   drain_left, checkVars, copyVars, result, staging>>
    /\ UNCHANGED outsideOta

\* Top of while (true): the overall time-out, then receive_chunk_header.
LoopTop ==
    /\ pc = "loop_top"
    /\ IF elapsed > OverallTimeoutTicks
       THEN /\ ErrorReturn(BOOTLOADER_ERROR_TIMEOUT, <<255, BOOTLOADER_ERROR_TIMEOUT>>)
            /\ UNCHANGED hdr_waits
       ELSE /\ pc' = "hdr_b1"
            /\ hdr_waits' = 0
            /\ UNCHANGED <<tx, result>>
    /\ UNCHANGED <<core0, handoffVars, senderVars, counterVars, pageVars, chunk_num,
                   chunk_size, elapsed, drain_left, checkVars, copyVars, uart_irq,
                   watchdog, uartRx, running_crc, staging>>
    /\ UNCHANGED outsideOta


(***************************************************************************)
(* receive_chunk_header and the dispatch on its result.                    *)
(***************************************************************************)
restOfHeader == <<core0, handoffVars, senderOwn, counterVars, pageVars, checkVars, copyVars,
                  uart_irq, watchdog, running_crc, staging>>

\* The chunk_size the caller reads after receive_chunk_header recognised the
\* bare end marker without assigning it: the value left in its stack slot
\* by the previous iteration, or any other value; 0xFFFF stands for the
\* others.
UninitChunkSizes == {chunk_size, 65535}

\* The bytes a byte-by-byte hunt for one of the bytes in marks takes from
\* bytes: up to and including the first such byte, or all of them.
HuntLength(bytes, marks) ==
    LET at == {k \in 1..Len(bytes) : bytes[k] \in marks} IN
    IF at = {} THEN Len(bytes) ELSE CHOOSE k \in at : \A j \in at : k <= j

\* The header hunt reads on to the first byte that opens something: 0x55
\* opens a chunk, 0xAA an end marker, every other byte is skipped.
HdrReadB1 ==
    /\ pc = "hdr_b1"
    /\ hdr_waits < ChunkTimeoutTicks
    /\ Len(rx) >= 1
    /\ LET n == HuntLength(rx, {BOOTLOADER_MAGIC_1, BOOTLOADER_END_MAGIC_1}) IN
       /\ Consume(n)
       /\ pc' = IF rx[n] = BOOTLOADER_MAGIC_1 THEN "hdr_b2"
                ELSE IF rx[n] = BOOTLOADER_END_MAGIC_1 THEN "end_b2"
                ELSE "hdr_b1"
    /\ UNCHANGED <<restOfHeader, endVars, headerVars, tx, result>>
    /\ UNCHANGED outsideOta

\* Variant of the clock in which a read time-out takes no time.
WaitTickStuck(n) == n
\* The clock after one more read time-out.
WaitTick(n) == n + 1

\* A 100 ms read in the hunt times out: continue, the deadline nearer.
HdrWaitTimeout ==
    /\ \/ pc = "hdr_b1" /\ hdr_waits < ChunkTimeoutTicks
       \/ pc \in {"hdr_b2", "end_b2"}
    /\ rx = <<>>
    /\ hdr_waits' = WaitTick(hdr_waits)
    /\ elapsed' = WaitTick(elapsed)
    /\ pc' = "hdr_b1"
    /\ UNCHANGED <<restOfHeader, endVars, chunk_num, chunk_size, drain_left, uartRx, tx,
                   result>>
    /\ UNCHANGED outsideOta

\* The hunt has lasted BOOTLOADER_CHUNK_TIMEOUT_MS: no header; the caller
\* reports a time-out.
HdrDeadline ==
    /\ pc = "hdr_b1"
    /\ hdr_waits >= ChunkTimeoutTicks
    /\ ErrorReturn(BOOTLOADER_ERROR_TIMEOUT, <<255, BOOTLOADER_ERROR_TIMEOUT>>)
    /\ UNCHANGED <<restOfHeader, endVars, headerVars, uartRx>>
    /\ UNCHANGED outsideOta

\* Second byte after 0x55: 0xAA completes the chunk magic, anything else is
\* dropped and the hunt goes on.
HdrReadB2 ==
    /\ pc = "hdr_b2"
    /\ Len(rx) >= 1
    /\ Consume(1)
    /\ pc' = IF rx[1] = BOOTLOADER_MAGIC_2 THEN "hdr_h6" ELSE "hdr_b1"
    /\ UNCHANGED <<restOfHeader, endVars, headerVars, tx, result>>
    /\ UNCHANGED outsideOta

\* Variant of the sequence test that lets every sequence number pass.
AnySequenceNumber(num) == TRUE
\* chunk_num != g_chunk_count fails the chunk: only the chunk whose number
\* is the count of chunks taken so far is in sequence.
InSequence(num) == num = LE32(g_chunk_count)

\* The six header bytes, then the caller's dispatch: the end-of-stream
\* sequence number, the length and sequence checks, or on to the data.
HdrReadFields ==
    /\ pc = "hdr_h6"
    /\ Len(rx) >= 6
    /\ Consume(6)
    /\ LET num == SubSeq(rx, 1, 4)
           size == U16(rx[5], rx[6]) IN
       /\ chunk_num' = num
       /\ chunk_size' = size
       /\ IF num = U32_ALL_ONES
          THEN /\ pc' = "drain_end"
               /\ drain_left' = size + 1
               /\ end_item' = ItemAt(rx_item, 6)
               /\ end_overrun' = FALSE
               /\ UNCHANGED <<tx, result>>
          ELSE IF size = 0 \/ size > BOOTLOADER_CHUNK_MAX_SIZE
                  \/ ~InSequence(num)
          THEN /\ ErrorReturn(BOOTLOADER_ERROR_INVALID_SIZE,
                              <<255, BOOTLOADER_ERROR_INVALID_SIZE>>)
               /\ UNCHANGED <<drain_left, endVars>>
          ELSE /\ pc' = "chunk_data"
               /\ UNCHANGED <<drain_left, endVars, tx, result>>
    /\ UNCHANGED <<restOfHeader, hdr_waits, elapsed>>
    /\ UNCHANGED outsideOta

\* The header bytes do not arrive within the chunk time-out.
HdrFieldsTimeout ==
    /\ pc = "hdr_h6"
    /\ Len(rx) < 6
    /\ ConsumeAll
    /\ ErrorReturn(BOOTLOADER_ERROR_TIMEOUT, <<255, BOOTLOADER_ERROR_TIMEOUT>>)
    /\ UNCHANGED <<restOfHeader, endVars, headerVars>>
    /\ UNCHANGED outsideOta

\* Second byte after 0xAA: 0x55 completes the end magic.
EndReadB2 ==
    /\ pc = "end_b2"
    /\ Len(rx) >= 1
    /\ Consume(1)
    /\ pc' = IF rx[1] = BOOTLOADER_END_MAGIC_2 THEN "end_b3" ELSE "hdr_b1"
    /\ end_item' = IF rx[1] = BOOTLOADER_END_MAGIC_2 THEN ItemAt(rx_item, 1) ELSE end_item
    /\ end_overrun' = IF rx[1] = BOOTLOADER_END_MAGIC_2 THEN FALSE ELSE end_overrun
    /\ UNCHANGED <<restOfHeader, headerVars, tx, result>>
    /\ UNCHANGED outsideOta

\* The byte after 0xAA 0x55 (200 ms): 0xAA makes the hunt go on; any other
\* byte is dropped and the end marker stands.  chunk_size is not assigned.
EndReadB3 ==
    /\ pc = "end_b3"
    /\ Len(rx) >= 1
    /\ Consume(1)
    /\ IF rx[1] = BOOTLOADER_MAGIC_2
       THEN /\ pc' = "hdr_b1"
            /\ UNCHANGED <<chunk_num, chunk_size, drain_left, end_overrun>>
       ELSE /\ pc' = "drain_end"
            /\ chunk_num' = U32_ALL_ONES
            /\ end_overrun' = (ItemAt(rx_item, 1)[1] > end_item[1])
            /\ \E v \in UninitChunkSizes :
                 /\ chunk_size' = v
                 /\ drain_left' = v + 1
    /\ UNCHANGED <<restOfHeader, end_item, hdr_waits, elapsed, tx, result>>
    /\ UNCHANGED outsideOta

\* No byte follows 0xAA 0x55 within 200 ms: the end marker stands.
EndB3Timeout ==
    /\ pc = "end_b3"
    /\ rx = <<>>
    /\ pc' = "drain_end"
    /\ chunk_num' = U32_ALL_ONES
    /\ \E v \in UninitChunkSizes :
         /\ chunk_size' = v
         /\ drain_left' = v + 1
    /\ UNCHANGED <<restOfHeader, endVars, hdr_waits, elapsed, uartRx, tx, result>>
    /\ UNCHANGED outsideOta

\* The end frame's data and checksum are read and dropped, as far as bytes
\* are there (for (uint16_t i = 0; i < chunk_size + 1; i++): with
\* chunk_size 0xFFFF the bound is never reached).
DrainEndBytes ==
    /\ pc = "drain_end"
    /\ Len(rx) >= 1
    /\ LET n == IF chunk_size = 65535 \/ drain_left > Len(rx) THEN Len(rx)
                ELSE drain_left IN
       /\ Consume(n)
       /\ drain_left' = IF chunk_size = 65535 THEN drain_left ELSE drain_left - n
       /\ end_overrun' = (end_overrun \/ ItemAt(rx_item, n)[1] > end_item[1])
    /\ pc' = IF drain_left' = 0 THEN "final_page" ELSE "drain_end"
    /\ UNCHANGED <<restOfHeader, end_item, chunk_num, chunk_size, hdr_waits, elapsed,
                   tx, result>>
    /\ UNCHANGED outsideOta

\* A drain read times out (500 ms): break.
DrainEndTimeout ==
    /\ pc = "drain_end"
    /\ rx = <<>>
    /\ pc' = "final_page"
    /\ UNCHANGED <<restOfHeader, endVars, headerVars, uartRx, tx, result>>
    /\ UNCHANGED outsideOta


(***************************************************************************)
(* receive_chunk_data and the rest of the loop body.                       *)
(***************************************************************************)
\* offset & ~(FLASH_SECTOR_SIZE - 1): the start of the offset's sector.
SectorStart(offset) == offset - (offset % FLASH_SECTOR_SIZE)
\* The flash offset as an index into the staging region.
StagingAt(offset) == offset - FLASH_TARGET_OFFSET

\* Variant of the checksum test that lets every checksum byte pass.
ChecksumIgnored(data, csum) == TRUE
\* receive_chunk_data: the XOR of the data bytes must equal the byte that
\* follows them.
ChecksumMatches(data, csum) == XorChecksum(data) = csum

\* The time since start_time once one more chunk has come over the line.
ClockAfterChunk == elapsed + 1

\* What goes to the UART once a chunk is taken: uart_write_byte(0xAA).
NoAck == <<>>
ChunkAck == <<170>>

\* The chunk's data and checksum byte arrive.  A wrong checksum is reported;
\* otherwise the running CRC takes the data, the page buffer fills and is
\* written when full (erasing on entry to a new sector), the counters
\* advance and the chunk is acknowledged.  A chunk is at most a page, so at
\* most one page is written.  The erase or the program operation may fail.
ChunkData ==
    /\ pc = "chunk_data"
    /\ Len(rx) >= chunk_size + 1
    /\ Consume(chunk_size + 1)
    /\ LET data == SubSeq(rx, 1, chunk_size)
           space == FLASH_PAGE_SIZE - Len(page_buffer)
           to_copy == IF chunk_size < space THEN chunk_size ELSE space
           filled == page_buffer \o SubSeq(data, 1, to_copy)
           sect_start == SectorStart(current_page_start)
           need_erase == ~sector_erased \/ sect_start # current_sector IN
       IF ~ChecksumMatches(data, rx[chunk_size + 1])
       THEN /\ ErrorReturn(BOOTLOADER_ERROR_CHECKSUM, <<255, BOOTLOADER_ERROR_CHECKSUM>>)
            /\ UNCHANGED <<counterVars, pageVars, running_crc, staging, elapsed>>
       ELSE /\ running_crc' = CrcUpdate(running_crc, data)
            /\ IF Len(filled) < FLASH_PAGE_SIZE
               THEN /\ page_buffer' = filled
                    /\ g_received_size' = g_received_size + chunk_size
                    /\ g_chunk_count' = g_chunk_count + 1
                    /\ elapsed' = ClockAfterChunk
                    /\ tx' = tx \o ChunkAck
                    /\ pc' = "loop_top"
                    /\ UNCHANGED <<g_receiving, current_page_start, current_sector,
                                   sector_erased, result, staging>>
               ELSE \E erase_ok, program_ok \in BOOLEAN :
                    LET erased == IF need_erase /\ erase_ok
                                  THEN EraseRange(staging, StagingAt(sect_start),
                                                  FLASH_SECTOR_SIZE)
                                  ELSE staging IN
                    IF need_erase /\ ~erase_ok
                    THEN /\ ErrorReturn(BOOTLOADER_ERROR_FLASH_ERASE, <<>>)
                         /\ page_buffer' = filled
                         /\ UNCHANGED <<counterVars, current_page_start, current_sector,
                                        sector_erased, staging, elapsed>>
                    ELSE IF ~program_ok
                    THEN /\ ErrorReturn(BOOTLOADER_ERROR_FLASH_WRITE, <<>>)
                         /\ page_buffer' = filled
                         /\ current_sector' = IF need_erase THEN sect_start
                                              ELSE current_sector
                         /\ sector_erased' = TRUE
                         /\ staging' = erased
                         /\ UNCHANGED <<counterVars, current_page_start, elapsed>>
                    ELSE /\ staging' = ProgramRange(erased, StagingAt(current_page_start),
                                                    filled)
                         /\ current_sector' = IF need_erase THEN sect_start
                                              ELSE current_sector
                         /\ sector_erased' = TRUE
                         /\ current_page_start' = current_page_start + FLASH_PAGE_SIZE
                         /\ page_buffer' = SubSeq(data, to_copy + 1, chunk_size)
                         /\ g_received_size' = g_received_size + chunk_size
                         /\ g_chunk_count' = g_chunk_count + 1
                         /\ elapsed' = ClockAfterChunk
                         /\ tx' = tx \o ChunkAck
                         /\ pc' = "loop_top"
                         /\ UNCHANGED <<g_receiving, result>>
    /\ UNCHANGED <<core0, handoffVars, senderVars, chunk_num, chunk_size, hdr_waits,
                   drain_left, checkVars, copyVars, uart_irq, watchdog>>
    /\ UNCHANGED outsideOta

\* The data or the checksum byte does not arrive within the chunk time-out:
\* receive_chunk_data fails and the caller reports a checksum error.
ChunkDataTimeout ==
    /\ pc = "chunk_data"
    /\ Len(rx) < chunk_size + 1
    /\ ConsumeAll
    /\ ErrorReturn(BOOTLOADER_ERROR_CHECKSUM, <<255, BOOTLOADER_ERROR_CHECKSUM>>)
    /\ UNCHANGED <<core0, handoffVars, senderVars, counterVars, pageVars, headerVars,
                   checkVars, copyVars, uart_irq, watchdog, running_crc, staging>>
    /\ UNCHANGED outsideOta


(***************************************************************************)
(* After the loop: the final page, the vector check, the CRC packet.       *)
(***************************************************************************)
\* The low and the high half of a 32-bit word.
Lo16(w) == w[1] + 256 * w[2]
Hi16(w) == w[3] + 256 * w[4]

\* A partly filled page buffer is padded with 0xFF and written.  The results
\* of the erase and of the program operation are not looked at.
FinalPage ==
    /\ pc = "final_page"
    /\ LET sect_start == SectorStart(current_page_start)
           need_erase == ~sector_erased \/ sect_start # current_sector IN
       IF Len(page_buffer) > 0
       THEN \E erase_ok, program_ok \in BOOLEAN :
            LET erased == IF need_erase /\ erase_ok
                          THEN EraseRange(staging, StagingAt(sect_start), FLASH_SECTOR_SIZE)
                          ELSE staging IN
            /\ staging' = IF program_ok
                          THEN ProgramRange(erased, StagingAt(current_page_start),
                                            PadFF(page_buffer, FLASH_PAGE_SIZE))
                          ELSE erased
            /\ tx' = tx \o <<16, 17, 18>> \o (IF need_erase THEN <<19, 20>> ELSE <<>>)
                        \o <<21, 22, 23>>
       ELSE /\ tx' = tx \o <<16, 17, 23>>
            /\ UNCHANGED staging
    /\ pc' = "vector_check"
    /\ UNCHANGED <<core0, handoffVars, senderVars, counterVars, pageVars, headerVars,
                   checkVars, copyVars, uart_irq, watchdog, uartRx, running_crc, result>>
    /\ UNCHANGED outsideOta

\* The staged vector table is read back: the stack pointer must lie in
\* 0x20......, the reset handler in 0x10.......  Then the CRC is finalised.
VectorCheck ==
    /\ pc = "vector_check"
    /\ LET sp_hi == FlashByte(staging, 3)
           pc_hi == FlashByte(staging, 7) IN
       /\ valid_sp' = (sp_hi = 32)
       /\ valid_pc' = (pc_hi = 16)
       /\ IF sp_hi # 32 \/ pc_hi # 16
          THEN /\ ErrorReturn(BOOTLOADER_ERROR_INVALID_SIZE,
                              <<161, 162, 163, 191, sp_hi, pc_hi>>)
               /\ UNCHANGED crc
          ELSE /\ tx' = tx \o <<161, 162, 163, 164, 165, 166>>
               /\ crc' = Not32(running_crc)
               /\ pc' = "crc_b1"
               /\ UNCHANGED result
    /\ UNCHANGED <<core0, handoffVars, senderVars, counterVars, pageVars, headerVars,
                   expectedCRC32, receivedExpectedCRC, copyVars, uart_irq, watchdog,
                   uartRx, running_crc, staging>>
    /\ UNCHANGED outsideOta

restOfCrcWait == <<core0, handoffVars, senderVars, counterVars, pageVars, headerVars,
                   valid_sp, valid_pc, crc, copyVars, uart_irq, watchdog, tx,
                   running_crc, result, staging>>

\* The CRC wait reads on to the first 0xAA.
CrcReadB1 ==
    /\ pc = "crc_b1"
    /\ Len(rx) >= 1
    /\ LET n == HuntLength(rx, {170}) IN
       /\ Consume(n)
       /\ pc' = IF rx[n] = 170 THEN "crc_b2" ELSE "crc_b1"
    /\ UNCHANGED <<restOfCrcWait, expectedCRC32, receivedExpectedCRC>>
    /\ UNCHANGED outsideOta

\* Two seconds pass without a CRC packet: on without one.
CrcWaitTimeout ==
    /\ pc = "crc_b1"
    /\ rx = <<>>
    /\ pc' = "crc_verify"
    /\ UNCHANGED <<restOfCrcWait, expectedCRC32, receivedExpectedCRC, uartRx>>
    /\ UNCHANGED outsideOta

\* The byte after 0xAA: 0x55 opens the CRC packet.
CrcReadB2 ==
    /\ pc = "crc_b2"
    /\ Len(rx) >= 1
    /\ Consume(1)
    /\ pc' = IF rx[1] = 85 THEN "crc_bytes" ELSE "crc_b1"
    /\ UNCHANGED <<restOfCrcWait, expectedCRC32, receivedExpectedCRC>>
    /\ UNCHANGED outsideOta

\* No byte follows 0xAA within 500 ms.
CrcB2Timeout ==
    /\ pc = "crc_b2"
    /\ rx = <<>>
    /\ pc' = "crc_b1"
    /\ UNCHANGED <<restOfCrcWait, expectedCRC32, receivedExpectedCRC, uartRx>>
    /\ UNCHANGED outsideOta

\* The four CRC bytes, little-endian.
CrcReadBytes ==
    /\ pc = "crc_bytes"
    /\ Len(rx) >= 4
    /\ Consume(4)
    /\ expectedCRC32' = SubSeq(rx, 1, 4)
    /\ receivedExpectedCRC' = TRUE
    /\ pc' = "crc_verify"
    /\ UNCHANGED restOfCrcWait
    /\ UNCHANGED outsideOta

\* The four CRC bytes do not arrive within a second.
CrcBytesTimeout ==
    /\ pc = "crc_bytes"
    /\ Len(rx) < 4
    /\ ConsumeAll
    /\ pc' = "crc_b1"
    /\ UNCHANGED <<restOfCrcWait, expectedCRC32, receivedExpectedCRC>>
    /\ UNCHANGED outsideOta

\* verify_staging_area: the CRC32 of the staging region read back.
StagingCrc(size) == crc32_calculate(ReadRange(staging, size))
VerifyMarkers(calc_crc, expected_crc) ==
    debug_marker(192, Lo16(expected_crc)) \o debug_marker(193, Hi16(expected_crc))
    \o debug_marker(194, Lo16(calc_crc)) \o debug_marker(195, Hi16(calc_crc))
    \o (IF calc_crc = expected_crc
        THEN debug_marker(202, 24589) ELSE debug_marker(207, 47825))

\* (g_received_size + FLASH_SECTOR_SIZE - 1) / FLASH_SECTOR_SIZE.
SectorCount(size) == (size + FLASH_SECTOR_SIZE - 1) \div FLASH_SECTOR_SIZE

\* With a CRC packet: both CRCs are reported, a difference between the
\* running CRC and the expected one is logged only, and the staging region
\* read back must give the expected CRC.  Then the size and sector checks,
\* the final acknowledgement 0xAA 0x55 0x00 and the bytes 0xF1..0xF4.
CrcVerify ==
    /\ pc = "crc_verify"
    /\ \E calc_crc \in {IF receivedExpectedCRC THEN StagingCrc(g_received_size)
                          ELSE crc} :
       LET report == IF receivedExpectedCRC
                     THEN <<206>> \o crc \o expectedCRC32
                          \o VerifyMarkers(calc_crc, expectedCRC32)
                     ELSE <<>> IN
       IF receivedExpectedCRC /\ calc_crc # expectedCRC32
       THEN ErrorReturn(BOOTLOADER_ERROR_CHECKSUM, report)
       ELSE IF g_received_size = 0 \/ g_received_size > MAX_FIRMWARE_SIZE
       THEN ErrorReturn(BOOTLOADER_ERROR_INVALID_SIZE, report \o <<167, 190>>)
       ELSE IF SectorCount(g_received_size) = 0
               \/ SectorCount(g_received_size) > MAX_SECTOR_COUNT
       THEN ErrorReturn(BOOTLOADER_ERROR_INVALID_SIZE, report \o <<167, 168, 188>>)
       ELSE /\ tx' = tx \o report \o <<167, 168, 169>> \o <<170, 85, 0>>
                        \o <<241, 242, 243, 244>>
            /\ pc' = "wd_disable"
            /\ UNCHANGED result
    /\ UNCHANGED <<core0, handoffVars, senderVars, counterVars, pageVars, headerVars,
                   checkVars, copyVars, uart_irq, watchdog, uartRx, running_crc, staging>>
    /\ UNCHANGED outsideOta


(***************************************************************************)
(* After the final acknowledgement: the watchdog and the copy.             *)
(***************************************************************************)
restOfCopy == <<core0, handoffVars, senderVars, counterVars, pageVars, headerVars,
                checkVars, uart_irq, uartRx, running_crc, result, staging>>

\* watchdog_disable(), then 0xE1..0xE4 and the marker 0xAA/0x1111.
WatchdogDisable ==
    /\ pc = "wd_disable"
    /\ watchdog' = FALSE
    /\ tx' = tx \o <<225, 226, 227, 228>> \o debug_marker(170, 4369)
    /\ pc' = "wd_enable"
    /\ UNCHANGED <<restOfCopy, copyVars>>
    /\ UNCHANGED outsideOta

\* watchdog_enable(8300, 1), then 0x11 0x22 0x33 0x44 and the call of
\* copy_firmware_to_main(g_received_size).
WatchdogReenable ==
    /\ pc = "wd_enable"
    /\ watchdog' = TRUE
    /\ tx' = tx \o <<17, 34, 51, 68>>
    /\ pc' = "copy_enter"
    /\ UNCHANGED <<restOfCopy, copyVars>>
    /\ UNCHANGED outsideOta

\* The bytes [from, from + len) of the preload buffer, without the 0xFF
\* bytes they end with.
Window(f, from, len) ==
    Strip(SubSeq(f, from + 1, IF from + len < Len(f) THEN from + len ELSE Len(f)))

\* copy_firmware_to_main up to its loop: the size checks, the preload of
\* the staged image into RAM, the second vector check (which only reports),
\* interrupts off, XIP exited.  When a size check fails the function
\* returns, and its caller sends the marker 0xCC/0xDEAD and calls
\* watchdog_reboot.
CopyEnter ==
    /\ pc = "copy_enter"
    /\ LET size == g_received_size
           head == <<85, 102, 119, 136>>
           sized == head \o debug_marker(2, size % 65536)
                    \o debug_marker(3, SectorCount(size))
                    \o debug_marker(4, size \div 1024)
           loaded == Strip(ReadRange(staging, size))
           sp_hi == FlashByte(loaded, 3)
           pc_hi == FlashByte(loaded, 7) IN
       IF size = 0 \/ size > MAX_FIRMWARE_SIZE
       THEN /\ tx' = tx \o head \o debug_marker(15, 1) \o debug_marker(204, 57005)
            /\ pc' = "reset"
            /\ UNCHANGED copyVars
       ELSE IF SectorCount(size) = 0 \/ SectorCount(size) > MAX_SECTOR_COUNT
       THEN /\ tx' = tx \o head \o debug_marker(15, 2) \o debug_marker(204, 57005)
            /\ pc' = "reset"
            /\ UNCHANGED copyVars
       ELSE IF size > FIRMWARE_PRELOAD_BUFFER_SIZE
       THEN /\ tx' = tx \o sized \o debug_marker(238, 65535) \o debug_marker(204, 57005)
            /\ pc' = "reset"
            /\ UNCHANGED copyVars
       ELSE /\ preload' = loaded
            /\ tx' = tx \o sized \o debug_marker(240, FlashByte(loaded, 0))
                        \o debug_marker(5, FlashByte(loaded, 2) + 256 * sp_hi)
                        \o (IF sp_hi # 32 \/ pc_hi # 16
                            THEN debug_marker(6, sp_hi + 256 * pc_hi) ELSE <<>>)
                        \o debug_marker(7, SectorCount(size))
                        \o debug_marker(209, 1) \o debug_marker(210, 1)
                        \o debug_marker(212, 1) \o debug_marker(213, 1)
                        \o debug_marker(214, 1) \o debug_marker(215, 1)
                        \o debug_marker(216, 1) \o debug_marker(217, 1)
            /\ irq_disabled' = TRUE
            /\ xip_exited' = TRUE
            /\ copy_i' = 0
            /\ pc' = "copy_erase"
            /\ UNCHANGED main_ops
    /\ UNCHANGED <<restOfCopy, watchdog>>
    /\ UNCHANGED outsideOta

\* Variant of the offset computation that stays at the first sector.
SectorOffsetStuck(i) == 0
\* uint32_t offset = i * FLASH_SECTOR_SIZE.
SectorOffset(i) == i * FLASH_SECTOR_SIZE

\* One sector of the loop, first half: the sector's data is taken from the
\* preload buffer and the sector of the active region is erased.
CopyErase ==
    /\ pc = "copy_erase"
    /\ tx' = tx \o debug_marker(8, copy_i) \o debug_marker(224, copy_i)
                \o debug_marker(9, copy_i) \o debug_marker(10, copy_i)
    /\ main_ops' = Append(main_ops, [op |-> "erase",
                                     offset |-> FLASH_MAIN_OFFSET + SectorOffset(copy_i),
                                     data |-> <<>>])
    /\ pc' = "copy_program"
    /\ UNCHANGED <<restOfCopy, watchdog, preload, copy_i, xip_exited, irq_disabled>>
    /\ UNCHANGED outsideOta

\* Second half: the sector is programmed; then the next sector, or the end.
CopyProgram ==
    /\ pc = "copy_program"
    /\ tx' = tx \o debug_marker(11, copy_i) \o debug_marker(12, copy_i)
    /\ main_ops' = Append(main_ops,
                          [op |-> "program",
                           offset |-> FLASH_MAIN_OFFSET + SectorOffset(copy_i),
                           data |-> Window(preload, SectorOffset(copy_i),
                                           FLASH_SECTOR_SIZE)])
    /\ copy_i' = copy_i + 1
    /\ pc' = IF copy_i + 1 < SectorCount(g_received_size) THEN "copy_erase"
             ELSE "copy_finish"
    /\ UNCHANGED <<restOfCopy, watchdog, preload, xip_exited, irq_disabled>>
    /\ UNCHANGED outsideOta

\* After the loop: the cache flush, the markers, the watchdog stopped and
\* started again with a 1 ms period, the system reset request.
CopyFinish ==
    /\ pc = "copy_finish"
    /\ tx' = tx \o debug_marker(13, copy_i) \o debug_marker(252, copy_i)
                \o debug_marker(254, copy_i) \o debug_marker(14, 65535)
    /\ watchdog' = TRUE
    /\ pc' = "reset"
    /\ UNCHANGED <<restOfCopy, copyVars>>
    /\ UNCHANGED outsideOta

(***************************************************************************)
(* bootloader_exit and the reset.                                          *)
(***************************************************************************)
\* Variant of bootloader_exit that clears the flag before the reset.
BootloaderExitClearsFlag ==
    /\ pc = "returned"
    /\ ConsumeAll
    /\ g_bootloader_active' = FALSE
    /\ pc' = "reset"
    /\ UNCHANGED <<core0, safe_state, decoder_reset, senderVars, counterVars, pageVars,
                   headerVars, checkVars, copyVars, uart_irq, watchdog, tx, running_crc,
                   result, staging>>
    /\ UNCHANGED outsideOta
\* The command handler calls bootloader_exit after an error: the FIFO is
\* drained for at most 2 s and once more for 200 ms, then watchdog_reboot.
\* g_bootloader_active is left as it is.
BootloaderExit ==
    /\ pc = "returned"
    /\ ConsumeAll
    /\ pc' = "reset"
    /\ UNCHANGED <<core0, handoffVars, senderVars, counterVars, pageVars, headerVars,
                   checkVars, copyVars, uart_irq, watchdog, tx, running_crc, result,
                   staging>>
    /\ UNCHANGED outsideOta

\* The reset: both cores restart and the statics are initialised again.
Reset ==
    /\ pc = "reset"
    /\ pc' = "booted"
    /\ core0' = "main"
    /\ g_bootloader_active' = FALSE
    /\ g_receiving' = FALSE
    /\ g_received_size' = 0
    /\ g_chunk_count' = 0
    /\ uart_irq' = TRUE
    /\ watchdog' = TRUE
    /\ xip_exited' = FALSE
    /\ irq_disabled' = FALSE
    /\ ConsumeAll
    /\ UNCHANGED <<safe_state, decoder_reset, senderVars, pageVars, headerVars, checkVars,
                   main_ops, preload, copy_i, tx, running_crc, result, staging>>
    /\ UNCHANGED outsideOta


OtaNext ==
    \/ PrepareEnter
    \/ PrepareCheck
    \/ PrepareSafeState
    \/ PrepareDrain
    \/ PrepareProtocolReset
    \/ PrepareSetActive
    \/ PrepareFinalDrain
    \/ Core0Park
    \/ Core0LoopTest
    \/ SenderSend
    \/ RxStart
    \/ LoopTop
    \/ HdrReadB1
    \/ HdrWaitTimeout
    \/ HdrDeadline
    \/ HdrReadB2
    \/ HdrReadFields
    \/ HdrFieldsTimeout
    \/ EndReadB2
    \/ EndReadB3
    \/ EndB3Timeout
    \/ DrainEndBytes
    \/ DrainEndTimeout
    \/ ChunkData
    \/ ChunkDataTimeout
    \/ FinalPage
    \/ VectorCheck
    \/ CrcReadB1
    \/ CrcWaitTimeout
    \/ CrcReadB2
    \/ CrcB2Timeout
    \/ CrcReadBytes
    \/ CrcBytesTimeout
    \/ CrcVerify
    \/ WatchdogDisable
    \/ WatchdogReenable
    \/ CopyEnter
    \/ CopyErase
    \/ CopyProgram
    \/ CopyFinish
    \/ BootloaderExit
    \/ Reset

(***************************************************************************)
(* Specifications.                                                         *)
(***************************************************************************)
Spec == OtaInit /\ [][OtaNext]_vars

\* The steps the application core takes by itself once bootloader_prepare
\* runs, and the reset it asks for: code that is running goes on running,
\* and every blocking read returns, with its bytes or on its time-out.
ProgressNext ==
    \/ PrepareCheck \/ PrepareSafeState \/ PrepareDrain \/ PrepareProtocolReset
    \/ PrepareSetActive \/ PrepareFinalDrain
    \/ LoopTop \/ HdrReadB1 \/ HdrWaitTimeout \/ HdrDeadline \/ HdrReadB2
    \/ HdrReadFields \/ HdrFieldsTimeout \/ EndReadB2 \/ EndReadB3 \/ EndB3Timeout
    \/ DrainEndBytes \/ DrainEndTimeout \/ ChunkData \/ ChunkDataTimeout
    \/ FinalPage \/ VectorCheck \/ CrcReadB1 \/ CrcWaitTimeout \/ CrcReadB2
    \/ CrcB2Timeout \/ CrcReadBytes \/ CrcBytesTimeout \/ CrcVerify
    \/ WatchdogDisable \/ WatchdogReenable \/ CopyEnter \/ CopyErase \/ CopyProgram
    \/ CopyFinish \/ BootloaderExit \/ Reset

\* The session of the sender that does not stop by itself: at any point it
\* may fall silent, send a fault or end the stream, or go on with chunks.
EndlessInit == OtaInit /\ sender_image = EndlessImage

\* The sender, the command handler's calls of bootloader_prepare and the
\* control core are under no obligation.
FairSpec == EndlessInit /\ [][OtaNext]_vars /\ WF_vars(ProgressNext)

(***************************************************************************)
(* The copy on its own, for staged images of several sectors.              *)
(***************************************************************************)
\* The sizes of the staged images: a vector table only, and a byte less
\* than, exactly, and a byte more than whole sectors.
CopySizes ==
    {8} \cup {k * FLASH_SECTOR_SIZE + d : k \in 1..(MaxSectors - 1), d \in {0, 1}}

\* The fill patterns of the staged images behind the vector table.
FillPatterns == 1..4

\* A staged image: a valid vector table, then bytes that differ from
\* position to position and are never 0xFF.
StagedImage(fill, size) ==
    [k \in 1..size |-> IF k <= Len(VecGood) THEN VecGood[k] ELSE (k * fill) % 251]

\* The state at the call copy_firmware_to_main(g_received_size) at the end
\* of bootloader_receive_firmware, after an image was received in full
\* without a CRC packet: the image is in the staging region, the vector
\* check has passed, the final acknowledgement and the bytes up to
\* 0x11 0x22 0x33 0x44 are written, the watchdog runs again.
CopyInit ==
    /\ pc = "copy_enter"
    /\ core0 = "parked"
    /\ g_bootloader_active = TRUE
    /\ g_receiving = TRUE
    /\ g_received_size \in CopySizes
    /\ g_chunk_count = (g_received_size + BOOTLOADER_CHUNK_MAX_SIZE - 1)
                           \div BOOTLOADER_CHUNK_MAX_SIZE
    /\ safe_state = TRUE
    /\ decoder_reset = TRUE
    /\ uart_irq = FALSE
    /\ watchdog = TRUE
    /\ rx = <<>>
    /\ rx_item = <<>>
    /\ tx = <<170, 85, 0, 241, 242, 243, 244, 225, 226, 227, 228>>
                \o debug_marker(170, 4369) \o <<17, 34, 51, 68>>
    /\ sender_image = <<>>
    /\ sent_count = g_chunk_count + 1
    /\ sent_faults = 0
    /\ sender_phase = "ended"
    /\ sent_names = <<>>
    /\ end_item = <<sent_count, "end_chunk">>
    /\ end_overrun = FALSE
    /\ \E fill \in FillPatterns :
           /\ staging = StagedImage(fill, g_received_size)
           /\ running_crc = CrcUpdate(U32_ALL_ONES, staging)
           /\ page_buffer = SubSeq(staging,
                                   g_received_size
                                       - (g_received_size % FLASH_PAGE_SIZE) + 1,
                                   g_received_size)
    /\ current_page_start = FLASH_TARGET_OFFSET
                                + g_received_size - (g_received_size % FLASH_PAGE_SIZE)
    /\ current_sector = SectorStart(FLASH_TARGET_OFFSET + g_received_size - 1)
    /\ sector_erased = TRUE
    /\ chunk_num = U32_ALL_ONES
    /\ chunk_size = 2
    /\ hdr_waits = 0
    /\ elapsed = 0
    /\ drain_left = 0
    /\ valid_sp = TRUE
    /\ valid_pc = TRUE
    /\ crc = Not32(running_crc)
    /\ expectedCRC32 = LE32(0)
    /\ receivedExpectedCRC = FALSE
    /\ result = NO_RESULT
    /\ main_ops = <<>>
    /\ preload = <<>>
    /\ copy_i = 0
    /\ xip_exited = FALSE
    /\ irq_disabled = FALSE
    /\ pm = PowerMeterStatics
    /\ mq = [meter |-> MQTTPowerMeter("auto"), now |-> 0, read_ok |-> FALSE]
    /\ det = StatusChangeDetector
    /\ mgr = PowerMeterManager
    /\ pid = PidController
    /\ flt = MovingAverage
    /\ sens = SensorStatics
    /\ rcv = ReceptionIdle
    /\ sv = PendingSaveStatics

CopyNext ==
    \/ CopyEnter
    \/ CopyErase
    \/ CopyProgram
    \/ CopyFinish
    \/ Reset

CopySpec == CopyInit /\ [][CopyNext]_vars

(***************************************************************************)
(* Properties.                                                             *)
(***************************************************************************)
\* The positions after the final acknowledgement, up to the reset request.
AfterFinalAck == {"wd_disable", "wd_enable", "copy_enter", "copy_erase",
                  "copy_program", "copy_finish"}

\* C1: no erase or program operation is issued on the active region unless
\* the staged image's vector check has passed and, when a CRC packet was
\* received, the running CRC equals the expected CRC.
C1_ActiveRegionOnlyAfterValidation ==
    main_ops # <<>> =>
        /\ valid_sp /\ valid_pc
        /\ receivedExpectedCRC => crc = expectedCRC32

\* The step that ends the read of a chunk header's six bytes.
HeaderStep == pc = "hdr_h6" /\ Len(rx) >= 6 /\ pc' # pc
\* The step that ends the read of a chunk's data and checksum.
DataStep == pc = "chunk_data" /\ Len(rx) >= chunk_size + 1 /\ pc' # pc
\* The chunk is taken: buffered, counted and acknowledged.
ChunkAccepted ==
    /\ g_chunk_count' = g_chunk_count + 1
    /\ g_received_size' = g_received_size + chunk_size
    /\ tx' = Append(tx, 170)
    /\ pc' = "loop_top"
\* The chunk is refused with the given code and nothing of it is kept.
ChunkRejected(code) ==
    /\ pc' = "returned"
    /\ result' = code
    /\ tx' = tx \o <<255, code>>
    /\ UNCHANGED <<counterVars, pageVars, running_crc, staging>>

\* C2 as stated: a data chunk is accepted if and only if its sequence number
\* equals the number of chunks accepted so far; any other sequence number
\* (0xFFFFFFFF aside) is rejected, aborts the OTA and writes nothing.
C2_AcceptedIffInSequence ==
    /\ [][(HeaderStep /\ chunk_num' # U32_ALL_ONES)
            => IF chunk_num' = LE32(g_chunk_count)
               THEN pc' = "chunk_data"
               ELSE ChunkRejected(BOOTLOADER_ERROR_INVALID_SIZE)]_otaVars
    /\ [][DataStep => chunk_num = LE32(g_chunk_count) /\ ChunkAccepted]_otaVars

\* C2, amended: a data chunk is accepted only if its sequence number equals
\* the number of chunks accepted so far, and a chunk with that number is
\* accepted when its length is 1..256, its data and checksum arrive, the
\* checksum matches and the page write it causes succeeds; the count rises
\* by one with each accepted chunk, so the accepted numbers are 0, 1, 2, ...;
\* any other sequence number (0xFFFFFFFF aside) is rejected, aborts the OTA
\* and writes nothing.
C2_AcceptedOnlyInSequence ==
    /\ [][(HeaderStep /\ chunk_num' # U32_ALL_ONES)
            => IF /\ chunk_num' = LE32(g_chunk_count)
                  /\ chunk_size' \in 1..BOOTLOADER_CHUNK_MAX_SIZE
               THEN pc' = "chunk_data"
               ELSE ChunkRejected(BOOTLOADER_ERROR_INVALID_SIZE)]_otaVars
    /\ [][DataStep
            => /\ chunk_num = LE32(g_chunk_count)
               /\ \/ ChunkAccepted
                  \/ /\ XorChecksum(SubSeq(rx, 1, chunk_size)) # rx[chunk_size + 1]
                     /\ pc' = "returned"
                  \/ /\ Len(page_buffer) + chunk_size >= FLASH_PAGE_SIZE
                     /\ pc' = "returned"
                     /\ result' \in {BOOTLOADER_ERROR_FLASH_ERASE,
                                     BOOTLOADER_ERROR_FLASH_WRITE}]_otaVars
    /\ [][g_chunk_count' # g_chunk_count
            => \/ /\ pc = "chunk_data"
                  /\ chunk_num = LE32(g_chunk_count)
                  /\ g_chunk_count' = g_chunk_count + 1
               \/ /\ pc \in {"prepared", "reset"}
                  /\ g_chunk_count' = 0]_otaVars

\* Chunks 0 and 1 were accepted and a chunk out of its turn was then refused.
C2_Witness ==
    /\ pc = "returned"
    /\ result = BOOTLOADER_ERROR_INVALID_SIZE
    /\ g_chunk_count = 2
    /\ chunk_size = 1
    /\ chunk_num \notin {LE32(2), U32_ALL_ONES}

\* C3: whenever bootloader_receive_firmware has returned an error, the last
\* two bytes it wrote to the UART are 0xFF and the error code.
C3_ErrorResponseBeforeReturn ==
    pc = "returned" =>
        /\ Len(tx) >= 2
        /\ SubSeq(tx, Len(tx) - 1, Len(tx)) = <<255, result>>

\* C4: once set, g_bootloader_active stays set in every step but the reset
\* itself, and a control core parked in bootloader_core0_loop stays parked
\* in every step but the reset.
C4_ActiveUntilReset ==
    [][pc # "reset" => /\ g_bootloader_active => g_bootloader_active'
                       /\ core0 = "parked" => core0' = "parked"]_otaVars

\* bootloader_exit has run after an error return: the flag is still set and
\* the control core still parked, the reset pending.
C4_Witness ==
    /\ pc = "reset"
    /\ result # NO_RESULT
    /\ g_bootloader_active
    /\ core0 = "parked"

\* C5: with an expected-CRC packet received and the running CRC different
\* from the expected value, the OTA is aborted: an error is returned, no
\* step after the final acknowledgement is reached and the active region is
\* not touched.
C5_RunningCrcMismatchAborts ==
    (receivedExpectedCRC /\ crc # expectedCRC32 /\ pc # "crc_verify") =>
        /\ pc \notin AfterFinalAck
        /\ result # NO_RESULT
        /\ main_ops = <<>>

\* C6: when the end of stream has been recognised in either dialect and its
\* drain is over, no byte of the end frame is left unread and no byte sent
\* after the end frame has been read.
C6_EndFrameConsumedExactly ==
    (pc = "final_page" /\ end_item[2] \in EndKinds) =>
        /\ ~end_overrun
        /\ \A k \in 1..Len(rx_item) : rx_item[k][1] # end_item[1]

\* C7: from the start of reception to the reset the watchdog is enabled.
C7_WatchdogStaysEnabled == g_receiving => watchdog

C9_HandoffOrdering ==
    /\ [](g_bootloader_active => safe_state /\ decoder_reset)
    /\ [][g_bootloader_active' /\ ~g_bootloader_active
            => safe_state /\ decoder_reset /\ rx = <<>>]_otaVars
    /\ [][(pc = "prep_check" /\ g_bootloader_active /\ pc' # pc)
            => /\ pc' = "prepared"
               /\ UNCHANGED <<core0, handoffVars, senderVars, counterVars, pageVars,
                              headerVars, checkVars, copyVars, uart_irq, watchdog,
                              uartRx, tx, running_crc, result, staging>>]_otaVars

\* bootloader_prepare called again, the flag set by the first call.
C9_Witness == pc = "prep_check" /\ g_bootloader_active

\* C10: a chunk whose header passed and whose data arrive with a wrong XOR
\* checksum is answered with 0xFF 0x03 and nothing else; staging, the page
\* buffer, g_received_size, g_chunk_count and the running CRC stay as they
\* are, and reception ends with the checksum error.
C10_BadChecksumRejected ==
    [][(DataStep /\ XorChecksum(SubSeq(rx, 1, chunk_size)) # rx[chunk_size + 1])
         => /\ ChunkRejected(BOOTLOADER_ERROR_CHECKSUM)
            /\ tx' = tx \o <<255, 3>>
            /\ UNCHANGED main_ops]_otaVars

\* Chunk 0 was acknowledged, then a one-byte chunk with a wrong checksum
\* was answered with 0xFF 0x03.
C10_Witness ==
    /\ pc = "returned"
    /\ result = BOOTLOADER_ERROR_CHECKSUM
    /\ g_chunk_count = 1
    /\ chunk_size = 1
    /\ chunk_num = LE32(1)
    /\ rx = <<>>
    /\ Len(tx) >= 3
    /\ SubSeq(tx, Len(tx) - 2, Len(tx)) = <<170, 255, 3>>

\* Sector k of the staged image as the copy has to program it: bytes
\* 4096 k .. 4096 k + 4095 of the image padded with 0xFF to whole sectors,
\* in the canonical form of a byte sequence.
ExpectedSector(k) ==
    Strip(SubSeq(PadFF(ReadRange(staging, g_received_size),
                       SectorCount(g_received_size) * FLASH_SECTOR_SIZE),
                 k * FLASH_SECTOR_SIZE + 1, (k + 1) * FLASH_SECTOR_SIZE))

\* The positions of copy_firmware_to_main from the loop on.
InCopyLoop == {"copy_erase", "copy_program", "copy_finish"}

\* C11: in copy_firmware_to_main the whole image is in the RAM buffer,
\* interrupts are off and XIP is exited before the first erase; the
\* operations on the active region are erase, program of sector 0, erase,
\* program of sector 1, ... up to sector n - 1, n = ceil(size / 4096), each
\* program with the sector's 4096 bytes of the padded image; from the first
\* erase on neither the staging region nor the RAM buffer changes; after the
\* last sector comes the reset request, and nothing is returned to the caller.
C11_CopySectorsInOrder ==
    /\ [](pc \in InCopyLoop =>
            /\ irq_disabled /\ xip_exited
            /\ preload = Strip(ReadRange(staging, g_received_size)))
    /\ [](pc \notin InCopyLoop \cup {"reset", "booted"} => main_ops = <<>>)
    /\ [](\A j \in 1..Len(main_ops) :
            LET k == (j - 1) \div 2 IN
            /\ k < SectorCount(g_received_size) \/ pc = "booted"
            /\ main_ops[j].offset = FLASH_MAIN_OFFSET + k * FLASH_SECTOR_SIZE
            /\ main_ops[j].op = (IF j % 2 = 1 THEN "erase" ELSE "program")
            /\ j % 2 = 0 /\ pc \in InCopyLoop => main_ops[j].data = ExpectedSector(k))
    /\ [](pc = "copy_erase" => Len(main_ops) = 2 * copy_i)
    /\ [](pc = "copy_program" => Len(main_ops) = 2 * copy_i + 1)
    /\ [](pc = "copy_finish" => Len(main_ops) = 2 * SectorCount(g_received_size))
    /\ [](main_ops # <<>> => result = NO_RESULT /\ pc # "returned")
    /\ [][(pc \in InCopyLoop) => /\ staging' = staging
                                 /\ preload' = preload
                                 /\ pc' \in (InCopyLoop \cup {"reset"})
                                 /\ (pc' = "reset") <=> (pc = "copy_finish")]_otaVars

\* C11 happens: three sectors have been erased and programmed and the reset
\* is requested.
C11_Witness ==
    /\ pc = "reset"
    /\ Len(main_ops) >= 6
    /\ main_ops[6].op = "program"
    /\ main_ops[6].offset = FLASH_MAIN_OFFSET + 2 * FLASH_SECTOR_SIZE


(***************************************************************************)
(* Part 2: the Modbus power meter driver of the controller MCU             *)
(* (src/src/pico/src/power_meter.c).  The packet handler's core calls      *)
(* power_meter_init (and through it power_meter_auto_detect), the polling  *)
(* core calls power_meter_update.  The meter on the wire is the            *)
(* environment: it answers a request with any of a set of byte streams.    *)
(* A voltage is a number of 0.1 mV, so that every scale of the register    *)
(* maps is a whole number; of a reading the voltage, the valid flag and    *)
(* the time stamp are kept.                                                *)
(***************************************************************************)
\* The largest value of the millisecond clock.
MaxTime == 1

\* a ^ b on 16-bit values.
Xor16(a, b) == Xor8(a % 256, b % 256) + 256 * Xor8(a \div 256, b \div 256)

MODBUS_CRC_POLYNOMIAL == 40961
MODBUS_CRC_INITIAL == 65535

\* One round of the inner loop of modbus_crc16.
Crc16Bit(c) ==
    IF c % 2 = 1 THEN Xor16(c \div 2, MODBUS_CRC_POLYNOMIAL) ELSE c \div 2

\* modbus_crc16 over buffer[0 .. length): crc ^= buffer[i], then eight
\* rounds; the bytes lo..hi are taken as lo..mid, then mid+1..hi.
modbus_crc16(buffer, length) ==
    LET over[d \in Seq(Nat)] ==
            LET round[c \in Nat] == Crc16Bit(c)
                run[x \in Nat \X Nat \X Nat] ==
                    IF x[2] > x[3] THEN x[1]
                    ELSE IF x[2] = x[3]
                    THEN round[round[round[round[round[round[round[round[
                             Xor16(x[1], d[x[2]])]]]]]]]]
                    ELSE run[<<run[<<x[1], x[2], (x[2] + x[3]) \div 2>>],
                               ((x[2] + x[3]) \div 2) + 1, x[3]>>]
            IN  run[<<MODBUS_CRC_INITIAL, 1, length>>]
    IN  over[buffer]

\* METER_MAPS: of each register map the fields the polling path uses; the
\* voltage scale is given in 0.1 mV per count.
METER_MAPS ==
    [m \in 0..(METER_MAPS_COUNT - 1) |->
        CASE m = 0 -> [name |-> "PZEM-004T V3", slave_addr |-> 248, baud_rate |-> 9600,
                       is_rs485 |-> FALSE, voltage_reg |-> 0, voltage_scale |-> 1000,
                       function_code |-> MODBUS_FC_READ_INPUT_REGS, num_registers |-> 10]
          [] m = 1 -> [name |-> "JSY-MK-163T", slave_addr |-> 1, baud_rate |-> 4800,
                       is_rs485 |-> FALSE, voltage_reg |-> 72, voltage_scale |-> 1,
                       function_code |-> MODBUS_FC_READ_HOLDING_REGS, num_registers |-> 16]
          [] m = 2 -> [name |-> "JSY-MK-194T", slave_addr |-> 1, baud_rate |-> 4800,
                       is_rs485 |-> FALSE, voltage_reg |-> 0, voltage_scale |-> 100,
                       function_code |-> MODBUS_FC_READ_HOLDING_REGS, num_registers |-> 10]
          [] m = 3 -> [name |-> "Eastron SDM120", slave_addr |-> 1, baud_rate |-> 2400,
                       is_rs485 |-> TRUE, voltage_reg |-> 0, voltage_scale |-> 10000,
                       function_code |-> MODBUS_FC_READ_INPUT_REGS, num_registers |-> 2]
          [] m = 4 -> [name |-> "Eastron SDM230", slave_addr |-> 1, baud_rate |-> 9600,
                       is_rs485 |-> TRUE, voltage_reg |-> 0, voltage_scale |-> 10000,
                       function_code |-> MODBUS_FC_READ_INPUT_REGS, num_registers |-> 2]]

\* 50 V and 300 V, the bounds of a plausible voltage in auto-detection.
DETECT_VOLTAGE_MIN == 500000
DETECT_VOLTAGE_MAX == 3000000

\* receive_modbus_response on the bytes the meter sends before it falls
\* silent: the read ends with success as soon as five bytes and
\* (uint8_t)(buffer[2] + 5) bytes are in, and without success when the meter
\* falls silent before or the buffer is full.
receive_modbus_response(stream) ==
    LET expected_len == IF Len(stream) >= 3 THEN (stream[3] + 5) % 256 ELSE 0
        need == IF expected_len > 5 THEN expected_len ELSE 5
    IN  IF need <= Len(stream) /\ need <= RESPONSE_BUFFER_SIZE
        THEN [ok |-> TRUE, bytes_read |-> need]
        ELSE [ok |-> FALSE,
              bytes_read |-> IF Len(stream) < RESPONSE_BUFFER_SIZE THEN Len(stream)
                             ELSE RESPONSE_BUFFER_SIZE]

\* Variant of the CRC comparison that takes every CRC.
CrcIgnored(buffer, length) == TRUE
\* received_crc == calculated_crc, the received CRC low byte first.
CrcMatches(buffer, length) ==
    buffer[length - 1] + 256 * buffer[length] = modbus_crc16(buffer, length - 2)

\* verify_modbus_response against the register map map.
verify_modbus_response(buffer, length, map) ==
    /\ length >= 5
    /\ buffer[1] = map.slave_addr
    /\ buffer[2] = map.function_code
    /\ CrcMatches(buffer, length)

\* extract_uint16: big-endian, offset counted from 0.
extract_uint16(buffer, offset) == buffer[offset + 1] * 256 + buffer[offset + 2]

\* parse_response: the voltage is the first register of the data, read when
\* the byte count covers it; the other fields of the reading stay zero.
parse_response(buffer, length, map) ==
    [valid |-> FALSE,
     voltage |-> IF length >= 5 /\ 1 < buffer[3]
                 THEN extract_uint16(buffer, 3) * map.voltage_scale
                 ELSE 0,
     timestamp |-> 0]

(***************************************************************************)
(* The meter on the wire.                                                  *)
(***************************************************************************)
\* A response frame: address, function code, byte count, data, CRC.
ResponseFrame(slave_addr, function_code, byte_count, data) ==
    LET body == <<slave_addr, function_code, byte_count>> \o data
        crc16 == modbus_crc16(body, Len(body))
    IN  body \o <<crc16 % 256, crc16 \div 256>>

\* The register data of a response of map m whose voltage register is raw.
RegisterData(m, raw) ==
    <<raw \div 256, raw % 256>>
        \o [k \in 1..(2 * METER_MAPS[m].num_registers - 2) |-> 0]

\* The raw voltages a meter of map m reports: 50 V, the next count above,
\* and 300 V, or the largest count when 16 bits do not hold them.
RawVoltages(m) ==
    LET plausible ==
            {raw \in {DETECT_VOLTAGE_MIN \div METER_MAPS[m].voltage_scale,
                      DETECT_VOLTAGE_MIN \div METER_MAPS[m].voltage_scale + 1,
                      DETECT_VOLTAGE_MAX \div METER_MAPS[m].voltage_scale} : raw < 65536}
    IN  IF plausible = {} THEN {65535} ELSE plausible

\* A frame with its last byte, the high byte of the CRC, changed.
WithBadCrc(frame) ==
    [k \in 1..Len(frame) |-> IF k = Len(frame) THEN Xor8(frame[k], 1) ELSE frame[k]]

\* A raw voltage of map m inside the plausible range, or the largest count.
TypicalVoltage(m) ==
    LET typical == DETECT_VOLTAGE_MIN \div METER_MAPS[m].voltage_scale + 1
    IN  IF typical < 65536 THEN typical ELSE 65535

\* A good frame of map m reporting the raw voltage raw.
GoodFrame(m, raw) ==
    ResponseFrame(METER_MAPS[m].slave_addr, METER_MAPS[m].function_code,
                  2 * METER_MAPS[m].num_registers, RegisterData(m, raw))

\* What may come back to a request of the auto-detection made with map m:
\* nothing; a good frame with one of the raw voltages; a frame with a wrong
\* CRC.
DetectResponseTable ==
    [m \in 0..(METER_MAPS_COUNT - 1) |->
        {<<>>, WithBadCrc(GoodFrame(m, TypicalVoltage(m)))}
            \cup {GoodFrame(m, raw) : raw \in RawVoltages(m)}]

\* What may come back to the request of a poll made with map m: nothing; a
\* good frame; a frame with a wrong CRC, from another address or with
\* another function code; a good frame cut short; five bytes whose byte
\* count wraps around.
PollResponseTable ==
    [m \in 0..(METER_MAPS_COUNT - 1) |->
        LET map == METER_MAPS[m]
            first == TypicalVoltage(m)
        IN  {<<>>, GoodFrame(m, first), WithBadCrc(GoodFrame(m, first)),
             ResponseFrame(Xor8(map.slave_addr, 1), map.function_code,
                           2 * map.num_registers, RegisterData(m, first)),
             ResponseFrame(map.slave_addr, Xor8(map.function_code, 7),
                           2 * map.num_registers, RegisterData(m, first)),
             SubSeq(GoodFrame(m, first), 1, 4),
             ResponseFrame(map.slave_addr, map.function_code, 255, <<>>)}]

DetectResponses(m) == DetectResponseTable[m]
PollResponses(m) == PollResponseTable[m]

\* The bytes receive_modbus_response leaves in the buffer.
Received(stream) == SubSeq(stream, 1, receive_modbus_response(stream).bytes_read)

\* verify_modbus_response, tabulated: for the register map verified against
\* and the map of the request, the received buffers that verify.
VerifiedTable ==
    [m \in 0..(METER_MAPS_COUNT - 1) |->
        [req \in 0..(METER_MAPS_COUNT - 1) |->
            {Received(stream) :
                stream \in {x \in DetectResponseTable[req] \cup PollResponseTable[req] :
                                /\ receive_modbus_response(x).ok
                                /\ verify_modbus_response(
                                       Received(x), Len(Received(x)), METER_MAPS[m])}}]]
Verified(buffer, m, req) == buffer \in VerifiedTable[m][req]

(***************************************************************************)
(* power_meter_init and power_meter_auto_detect (packet handler's core).   *)
(***************************************************************************)
\* The meter indexes of the configurations the packet handler passes on: a
\* TTL meter, an RS485 meter, auto-detect, and an index outside the table.
ConfigMeters == {0, 3, METER_INDEX_AUTO, 7}

\* The arguments of power_meter_init: NULL at boot, a configuration that
\* switches the meter off, or one that switches it on.
InitConfigs ==
    {[given |-> FALSE, enabled |-> FALSE, meter_index |-> 0],
     [given |-> TRUE, enabled |-> FALSE, meter_index |-> 0]}
        \cup {[given |-> TRUE, enabled |-> TRUE, meter_index |-> x] : x \in ConfigMeters}

\* power_meter_init and power_meter_auto_detect return: their locals are
\* gone.
InitReturns(p, value) ==
    [p EXCEPT !.init_result = value,
              !.config = PowerMeterStatics.config,
              !.meter_changed = FALSE,
              !.i = 0,
              !.pin_try = 0,
              !.detect_buffer = <<>>,
              !.init_pc = "idle"]

\* power_meter_update returns: its locals are gone.
UpdateReturns(p) ==
    [p EXCEPT !.response_buffer = <<>>,
              !.failures = 0,
              !.old_tx = 0,
              !.upd_pc = "idle"]

\* configure_uart_pins: the PIO UART takes the pins of that moment.
Configured(p) == [p EXCEPT !.pio_tx_pin = p.uart_tx_pin, !.pio_rx_pin = p.uart_rx_pin]

\* power_meter_init up to the selection of the register map: the
\* configuration is taken (disabled when none is given), a disabled or an
\* invalid configuration switches the driver off, a table index selects its
\* map, the index 0xFF starts the auto-detection.
PowerMeterInit(config) ==
    /\ pm.init_pc = "idle"
    /\ LET given == [enabled |-> config.enabled, meter_index |-> config.meter_index]
           current_config == IF config.given THEN given
                             ELSE [enabled |-> FALSE, meter_index |-> METER_INDEX_AUTO]
           off == InitReturns([pm EXCEPT !.initialized = FALSE,
                                         !.has_ever_read = FALSE,
                                         !.current_map = NULL_MAP], TRUE) IN
       pm' = IF ~current_config.enabled
             THEN [off EXCEPT !.current_config = current_config]
             ELSE IF current_config.meter_index # METER_INDEX_AUTO
                     /\ current_config.meter_index >= METER_MAPS_COUNT
             THEN [off EXCEPT !.current_config =
                                  [enabled |-> FALSE,
                                   meter_index |-> current_config.meter_index],
                              !.last_error = "Invalid meter index"]
             ELSE IF current_config.meter_index < METER_MAPS_COUNT
             THEN [pm EXCEPT !.config = config,
                             !.current_config = current_config,
                             !.current_map = current_config.meter_index,
                             !.init_pc = "meter_changed"]
             ELSE [pm EXCEPT !.config = config,
                             !.current_config = current_config,
                             !.i = 0,
                             !.pin_try = 0,
                             !.init_pc = "detect"]
    /\ UNCHANGED outsideMeter

\* bool meter_changed = ...; last_configured_meter = ....
InitMeterChanged ==
    /\ pm.init_pc = "meter_changed"
    /\ LET changed == pm.current_config.meter_index # pm.last_configured_meter IN
       pm' = [pm EXCEPT !.meter_changed = changed,
                        !.last_configured_meter = pm.current_config.meter_index,
                        !.init_pc = IF changed THEN "reset_tx" ELSE "configure"]
    /\ UNCHANGED outsideMeter

\* uart_tx_pin = UART_TX_PIN_DEFAULT.
InitResetTx ==
    /\ pm.init_pc = "reset_tx"
    /\ pm' = [pm EXCEPT !.uart_tx_pin = UART_TX_PIN_DEFAULT, !.init_pc = "reset_rx"]
    /\ UNCHANGED outsideMeter

\* uart_rx_pin = UART_RX_PIN_DEFAULT.
InitResetRx ==
    /\ pm.init_pc = "reset_rx"
    /\ pm' = [pm EXCEPT !.uart_rx_pin = UART_RX_PIN_DEFAULT, !.init_pc = "reset_swapped"]
    /\ UNCHANGED outsideMeter

\* pins_swapped = false.
InitResetSwapped ==
    /\ pm.init_pc = "reset_swapped"
    /\ pm' = [pm EXCEPT !.pins_swapped = FALSE, !.init_pc = "reset_failures"]
    /\ UNCHANGED outsideMeter

\* consecutive_failures = 0.  The pins are the default ones again: the polls
\* that failed count from here.
InitResetFailures ==
    /\ pm.init_pc = "reset_failures"
    /\ pm' = [pm EXCEPT !.consecutive_failures = 0,
                        !.failed_polls = 0,
                        !.init_pc = "configure"]
    /\ UNCHANGED outsideMeter

\* The UART is configured on a first init, a re-enable or a meter change;
\* initialized = true; return true.
InitConfigure ==
    /\ pm.init_pc = "configure"
    /\ LET done == InitReturns([pm EXCEPT !.initialized = TRUE], TRUE) IN
       pm' = IF ~pm.initialized \/ pm.meter_changed THEN Configured(done) ELSE done
    /\ UNCHANGED outsideMeter

\* One pass of the inner loop of power_meter_auto_detect up to the return
\* of receive_modbus_response: the map and the pin orientation of the pass
\* are set, the UART is configured, the request is sent, the response is
\* received; an empty buffer stands for none.
DetectAttempt ==
    /\ pm.init_pc = "detect"
    /\ \E stream \in DetectResponses(pm.i) :
       pm' = Configured([pm EXCEPT
                 !.current_map = pm.i,
                 !.uart_tx_pin = IF pm.pin_try = 0 THEN UART_TX_PIN_DEFAULT
                                 ELSE UART_RX_PIN_DEFAULT,
                 !.uart_rx_pin = IF pm.pin_try = 0 THEN UART_RX_PIN_DEFAULT
                                 ELSE UART_TX_PIN_DEFAULT,
                 !.pins_swapped = (pm.pin_try # 0),
                 !.failed_polls = 0,
                 !.request = pm.i,
                 !.detect_buffer = IF receive_modbus_response(stream).ok
                                   THEN Received(stream) ELSE <<>>,
                 !.init_pc = "detect_verify"])
    /\ UNCHANGED outsideMeter

\* The map current_map points to; when power_meter_init has set it to NULL
\* on the other core meanwhile, the fields read through it are not defined:
\* any map's values stand for them.
MapsRead == IF pm.current_map = NULL_MAP THEN 0..(METER_MAPS_COUNT - 1)
            ELSE {pm.current_map}

\* Variant of the voltage test that takes 50 V itself.
VoltageFromMin(voltage) ==
    voltage >= DETECT_VOLTAGE_MIN /\ voltage < DETECT_VOLTAGE_MAX
\* test_reading.voltage > 50 && test_reading.voltage < 300.
PlausibleVoltage(voltage) ==
    voltage > DETECT_VOLTAGE_MIN /\ voltage < DETECT_VOLTAGE_MAX

\* The rest of the pass: the response is verified and parsed; a plausible
\* voltage ends the detection with the driver initialised; else the next
\* orientation, the next map, or the end without a meter.
DetectResponse ==
    /\ pm.init_pc = "detect_verify"
    /\ \E m \in MapsRead :
       LET bytes_read == Len(pm.detect_buffer)
           test_reading == parse_response(pm.detect_buffer, bytes_read, METER_MAPS[m]) IN
       pm' = IF /\ pm.detect_buffer # <<>>
                /\ Verified(pm.detect_buffer, m, pm.request)
                /\ PlausibleVoltage(test_reading.voltage)
             THEN InitReturns(
                      [pm EXCEPT !.initialized = TRUE,
                                 !.has_ever_read = TRUE,
                                 !.last_reading = test_reading,
                                 !.last_success_time = pm.now,
                                 !.current_config = [enabled |-> TRUE, meter_index |-> pm.i],
                                 !.last_configured_meter = pm.i], TRUE)
             ELSE IF pm.pin_try = 0
             THEN [pm EXCEPT !.pin_try = 1, !.init_pc = "detect"]
             ELSE IF pm.i + 1 < METER_MAPS_COUNT
             THEN [pm EXCEPT !.i = pm.i + 1, !.pin_try = 0, !.init_pc = "detect"]
             ELSE InitReturns(
                      [pm EXCEPT !.last_error = "Auto-detection failed",
                                 !.initialized = FALSE,
                                 !.current_map = NULL_MAP,
                                 !.uart_tx_pin = UART_TX_PIN_DEFAULT,
                                 !.uart_rx_pin = UART_RX_PIN_DEFAULT,
                                 !.pins_swapped = FALSE], FALSE)
    /\ UNCHANGED outsideMeter

(***************************************************************************)
(* power_meter_update (polling core).                                      *)
(***************************************************************************)
\* One more poll in a row without a reading; the count stops at the
\* threshold.
OneMoreFailed(n) == IF n < PIN_ROTATE_THRESHOLD THEN n + 1 ELSE n

\* power_meter_update up to the request: nothing when the driver is not
\* initialised; else stale bytes are dropped and the request is sent.
PowerMeterUpdate ==
    /\ pm.upd_pc = "idle"
    /\ pm.initialized /\ pm.current_map # NULL_MAP
    /\ pm' = [pm EXCEPT !.request = pm.current_map, !.upd_pc = "receive"]
    /\ UNCHANGED outsideMeter

\* The call while the driver is not initialised returns at once.
PowerMeterUpdateOff ==
    /\ pm.upd_pc = "idle"
    /\ ~(pm.initialized /\ pm.current_map # NULL_MAP)
    /\ UNCHANGED <<pm, outsideMeter>>

\* receive_modbus_response returns.  Without a complete response the
\* failure is counted, failures = ++consecutive_failures (8 bits), and at
\* the threshold and at twice the threshold the pins are to be exchanged.
UpdReceive ==
    /\ pm.upd_pc = "receive"
    /\ \E stream \in PollResponses(pm.request) :
       LET received == receive_modbus_response(stream)
           failures == (pm.consecutive_failures + 1) % 256 IN
       pm' = IF received.ok
             THEN [pm EXCEPT !.response_buffer = Received(stream),
                             !.upd_pc = "verify"]
             ELSE IF failures = PIN_ROTATE_THRESHOLD \/ failures = PIN_ROTATE_THRESHOLD * 2
             THEN [pm EXCEPT !.consecutive_failures = failures,
                             !.failures = failures,
                             !.upd_pc = "swap_old"]
             ELSE UpdateReturns(
                      [pm EXCEPT !.consecutive_failures = failures,
                                 !.last_error = "No response from meter",
                                 !.failed_polls = OneMoreFailed(pm.failed_polls)])
    /\ UNCHANGED outsideMeter

\* uint8_t old_tx = uart_tx_pin.
UpdSwapOld ==
    /\ pm.upd_pc = "swap_old"
    /\ pm' = [pm EXCEPT !.old_tx = pm.uart_tx_pin, !.upd_pc = "swap_tx"]
    /\ UNCHANGED outsideMeter

\* uart_tx_pin = uart_rx_pin.
UpdSwapTx ==
    /\ pm.upd_pc = "swap_tx"
    /\ pm' = [pm EXCEPT !.uart_tx_pin = pm.uart_rx_pin, !.upd_pc = "swap_rx"]
    /\ UNCHANGED outsideMeter

\* uart_rx_pin = old_tx.
UpdSwapRx ==
    /\ pm.upd_pc = "swap_rx"
    /\ pm' = [pm EXCEPT !.uart_rx_pin = pm.old_tx, !.upd_pc = "swap_flag"]
    /\ UNCHANGED outsideMeter

\* pins_swapped = !pins_swapped.
UpdSwapFlag ==
    /\ pm.upd_pc = "swap_flag"
    /\ pm' = [pm EXCEPT !.pins_swapped = ~pm.pins_swapped, !.upd_pc = "swap_configure"]
    /\ UNCHANGED outsideMeter

\* configure_uart_pins; at twice the threshold consecutive_failures = 0;
\* last_error tells which; return.  The pins have changed: no poll has failed with them yet.
UpdSwapConfigure ==
    /\ pm.upd_pc = "swap_configure"
    /\ pm' = UpdateReturns(Configured([pm EXCEPT
                 !.consecutive_failures =
                     IF pm.failures = PIN_ROTATE_THRESHOLD * 2 THEN 0
                     ELSE pm.consecutive_failures,
                 !.last_error =
                     IF pm.failures = PIN_ROTATE_THRESHOLD * 2
                     THEN "No response - reverted TX/RX"
                     ELSE "No response - swapped TX/RX",
                 !.failed_polls = 0]))
    /\ UNCHANGED outsideMeter

\* The response is verified and parsed.  An invalid response only sets
\* last_error; a valid one resets the failure counter and becomes the
\* last reading.
UpdVerify ==
    /\ pm.upd_pc = "verify"
    /\ \E m \in MapsRead :
       LET bytes_read == Len(pm.response_buffer)
           reading == parse_response(pm.response_buffer, bytes_read, METER_MAPS[m]) IN
       pm' = IF Verified(pm.response_buffer, m, pm.request)
             THEN UpdateReturns(
                      [pm EXCEPT !.consecutive_failures = 0,
                                 !.last_reading = [reading EXCEPT !.valid = TRUE,
                                                                  !.timestamp = pm.now],
                                 !.last_success_time = pm.now,
                                 !.has_ever_read = TRUE,
                                 !.last_error = "",
                                 !.failed_polls = 0])
             ELSE UpdateReturns(
                      [pm EXCEPT !.last_error = "Invalid response",
                                 !.failed_polls = OneMoreFailed(pm.failed_polls)])
    /\ UNCHANGED outsideMeter

\* time_us_32() / 1000 has advanced.
MeterTick ==
    /\ pm.now < MaxTime
    /\ pm' = [pm EXCEPT !.now = pm.now + 1]
    /\ UNCHANGED outsideMeter

(***************************************************************************)
(* Specifications of the power meter driver.                               *)
(***************************************************************************)
\* The OTA path at rest.
OtaIdle == OtaInit /\ rx = <<>> /\ sender_image = <<"bad">> /\ staging = <<>>

\* The steps inside power_meter_init.
InitSteps ==
    \/ InitMeterChanged
    \/ InitResetTx
    \/ InitResetRx
    \/ InitResetSwapped
    \/ InitResetFailures
    \/ InitConfigure

\* The steps inside power_meter_auto_detect.
DetectSteps == DetectAttempt \/ DetectResponse

\* The steps inside power_meter_update.
UpdateSteps ==
    \/ UpdReceive
    \/ UpdSwapOld
    \/ UpdSwapTx
    \/ UpdSwapRx
    \/ UpdSwapFlag
    \/ UpdSwapConfigure
    \/ UpdVerify

\* Calls that do not overlap: a function is entered while the other core
\* is outside the driver.
InitAlone == pm.upd_pc = "idle" /\ \E config \in InitConfigs : PowerMeterInit(config)
UpdateAlone == pm.init_pc = "idle" /\ PowerMeterUpdate
UpdateOffAlone == pm.init_pc = "idle" /\ PowerMeterUpdateOff

MeterNext ==
    \/ InitAlone
    \/ UpdateAlone
    \/ UpdateOffAlone
    \/ InitSteps
    \/ DetectSteps
    \/ UpdateSteps
    \/ MeterTick

MeterSpec == OtaIdle /\ [][MeterNext]_vars

\* The configurations of the calls that overlap a poll: a meter of the
\* table, switched on.
RaceConfigs == {config \in InitConfigs : /\ config.given
                                         /\ config.enabled
                                         /\ config.meter_index < METER_MAPS_COUNT}

\* Calls on the two cores at any time, within one tick of the clock.
InitAnyTime == \E config \in RaceConfigs : PowerMeterInit(config)

RaceNext ==
    \/ InitAnyTime
    \/ PowerMeterUpdate
    \/ PowerMeterUpdateOff
    \/ InitSteps
    \/ UpdateSteps

RaceSpec == OtaIdle /\ [][RaceNext]_vars

(***************************************************************************)
(* Properties of the power meter driver.                                   *)
(***************************************************************************)
\* A step in which power_meter_update returns.
UpdateReturned == pm.upd_pc # "idle" /\ pm'.upd_pc = "idle"

\* A step in which power_meter_update returns with a new reading.
UpdateSucceeded ==
    /\ pm.upd_pc = "verify"
    /\ verify_modbus_response(pm.response_buffer, Len(pm.response_buffer),
                              METER_MAPS[pm.request])

\* C12: pin rotation with N = PIN_ROTATE_THRESHOLD.  The poll that is the
\* N-th in a row to fail with one pin orientation exchanges TX and RX, so
\* power_meter_update never returns with N failed polls in a row behind it
\* and the pins as they were; a poll that succeeds sets the failure count
\* to 0 and keeps the pins.
C12_PinsRotateAfterFailedPolls ==
    [][UpdateReturned =>
           /\ pm'.failed_polls < PIN_ROTATE_THRESHOLD
           /\ UpdateSucceeded =>
                  /\ pm'.consecutive_failures = 0
                  /\ pm'.uart_tx_pin = pm.uart_tx_pin
                  /\ pm'.uart_rx_pin = pm.uart_rx_pin
                  /\ pm'.pins_swapped = pm.pins_swapped]_vars

\* C13: power_meter_init on the packet handler's core and
\* power_meter_update on the polling core cannot corrupt the pin
\* orientation: whenever both are outside the driver, uart_tx_pin and
\* uart_rx_pin are the two Modbus pins, one each, and pins_swapped tells
\* whether they are exchanged.
C13_PinsConsistentAfterRace ==
    (pm.init_pc = "idle" /\ pm.upd_pc = "idle") =>
        /\ pm.uart_tx_pin # pm.uart_rx_pin
        /\ {pm.uart_tx_pin, pm.uart_rx_pin} = {UART_TX_PIN_DEFAULT, UART_RX_PIN_DEFAULT}
        /\ pm.pins_swapped <=> (pm.uart_tx_pin = UART_RX_PIN_DEFAULT)

\* The three checks of a response against a register map, stated on their
\* own: the address, the function code, and the CRC-16 of all bytes but the
\* last two, which hold it low byte first.
ResponseChecksOut(buffer, map) ==
    /\ Len(buffer) >= 5
    /\ buffer[1] = map.slave_addr
    /\ buffer[2] = map.function_code
    /\ modbus_crc16(SubSeq(buffer, 1, Len(buffer) - 2), Len(buffer) - 2)
           = buffer[Len(buffer) - 1] + 256 * buffer[Len(buffer)]

\* The CRC-16 of the ASCII digits "123456789", the usual check input.
CrcOfCheckInput == modbus_crc16(<<49, 50, 51, 52, 53, 54, 55, 56, 57>>, 9)

\* last_reading, last_success_time and has_ever_read stay as they are.
ReadingKept ==
    /\ pm'.last_reading = pm.last_reading
    /\ pm'.last_success_time = pm.last_success_time
    /\ pm'.has_ever_read = pm.has_ever_read

\* C14: a response is accepted only if its slave address, its function
\* code and its CRC-16 match (the CRC-16 being the one of polynomial
\* 0xA001 and initial value 0xFFFF, which maps "123456789" to 0x4B37):
\* while power_meter_update runs, every step but the verification of a
\* response passing the three checks leaves last_reading,
\* last_success_time and has_ever_read unchanged.
C14_OnlyVerifiedResponsesAccepted ==
    [][/\ CrcOfCheckInput = 19255
       /\ (pm.upd_pc # "idle"
               /\ ~(/\ pm.upd_pc = "verify"
                    /\ ResponseChecksOut(pm.response_buffer, METER_MAPS[pm.request])))
              => ReadingKept]_vars

\* C14 happens: power_meter_update has returned from a response that did
\* not verify, at a time after the last reading was taken, and that reading
\* is still the last one.
C14_Witness ==
    /\ pm.upd_pc = "idle"
    /\ pm.last_error = "Invalid response"
    /\ pm.has_ever_read
    /\ pm.last_reading.valid
    /\ pm.last_success_time < pm.now
    /\ pm.last_reading.timestamp = pm.last_success_time

\* The pins of the pass pin_try of the auto-detection: default, then
\* exchanged.
PinsOfTry(p, pin_try) ==
    /\ p.uart_tx_pin = (IF pin_try = 0 THEN UART_TX_PIN_DEFAULT ELSE UART_RX_PIN_DEFAULT)
    /\ p.uart_rx_pin = (IF pin_try = 0 THEN UART_RX_PIN_DEFAULT ELSE UART_TX_PIN_DEFAULT)
    /\ p.pins_swapped = (pin_try = 1)

\* The response in the buffer verifies against the map and its voltage
\* lies strictly between 50 V and 300 V.
Qualifies(buffer, map) ==
    /\ buffer # <<>>
    /\ ResponseChecksOut(buffer, map)
    /\ buffer[3] >= 2
    /\ (buffer[4] * 256 + buffer[5]) * map.voltage_scale > DETECT_VOLTAGE_MIN
    /\ (buffer[4] * 256 + buffer[5]) * map.voltage_scale < DETECT_VOLTAGE_MAX

\* C15: power_meter_auto_detect starts with the first map and the default
\* pins; each pass probes with the map and the pins of its pair; a pass
\* whose response qualifies returns true with the driver initialised and
\* the map, the meter index and the pins of that pair in place; any other
\* pass is followed by the next pair, the exchanged pins after the default
\* ones and then the next map; after the last pair the function returns
\* false with initialized false, current_map NULL and the default pins.
C15_AutoDetectInOrder ==
    [][/\ (pm.init_pc = "idle" /\ pm'.init_pc = "detect")
              => pm'.i = 0 /\ pm'.pin_try = 0
       /\ (pm.init_pc = "detect" /\ pm'.init_pc # "detect")
              => /\ pm'.init_pc = "detect_verify"
                 /\ pm'.i = pm.i /\ pm'.pin_try = pm.pin_try
                 /\ pm'.current_map = pm.i /\ pm'.request = pm.i
                 /\ PinsOfTry(pm', pm.pin_try)
       /\ (pm.init_pc = "detect_verify" /\ pm'.init_pc # "detect_verify")
              => IF Qualifies(pm.detect_buffer, METER_MAPS[pm.i])
                 THEN /\ pm'.init_pc = "idle" /\ pm'.init_result
                      /\ pm'.initialized
                      /\ pm'.current_map = pm.i
                      /\ pm'.current_config = [enabled |-> TRUE, meter_index |-> pm.i]
                      /\ PinsOfTry(pm', pm.pin_try)
                 ELSE IF pm.pin_try = 0
                 THEN pm'.init_pc = "detect" /\ pm'.i = pm.i /\ pm'.pin_try = 1
                 ELSE IF pm.i < METER_MAPS_COUNT - 1
                 THEN pm'.init_pc = "detect" /\ pm'.i = pm.i + 1 /\ pm'.pin_try = 0
                 ELSE /\ pm'.init_pc = "idle" /\ ~pm'.init_result
                      /\ ~pm'.initialized
                      /\ pm'.current_map = NULL_MAP
                      /\ PinsOfTry(pm', 0)]_vars

\* C15 happens: the auto-detection has returned true on the eighth pair,
\* the Eastron SDM120 with the pins exchanged, and has left its reading.
C15_Witness ==
    /\ pm.init_pc = "idle"
    /\ pm.init_result
    /\ pm.initialized
    /\ pm.current_map = 3
    /\ pm.current_config = [enabled |-> TRUE, meter_index |-> 3]
    /\ pm.pins_swapped
    /\ pm.has_ever_read
    /\ ~pm.last_reading.valid
    /\ pm.last_reading.voltage > DETECT_VOLTAGE_MIN


(***************************************************************************)
(* Part 3: the MQTT power meter of the display MCU                         *)
(* (src/src/esp32/src/power_meter/mqtt_power_meter.cpp).  The MQTT client  *)
(* hands the payloads of the data topic to onMqttData and those of the     *)
(* last-will topic to onLwtMessage; the power meter manager constructs the *)
(* object, sets the JSON paths and reads.  A payload of the data topic is  *)
(* malformed or a JSON document, of which the members the parsers look at  *)
(* are kept; a number is a whole number of W, V or mA.                     *)
(***************************************************************************)
\* The largest value of millis().
MaxMillis == 3

\* The staleness threshold, in ticks of the model's clock.
STALE_THRESHOLD_MS == 1

\* The voltage parseShelly assumes.
SHELLY_VOLTAGE == 230

\* JSON values: no member of that name, a number, a string, an array of
\* meter objects, the ENERGY object.
Absent == [kind |-> "null"]
Number(n) == [kind |-> "number", n |-> n]
Text == [kind |-> "string"]
Meters(items) == [kind |-> "array", items |-> items]
Energy(Power, Voltage, Current) ==
    [kind |-> "object", Power |-> Power, Voltage |-> Voltage, Current |-> Current]

\* v.is<float>(): any number.
IsFloat(v) == v.kind = "number"

\* A document with nothing the parsers look for.
EmptyDocument ==
    [meters |-> Absent, ENERGY |-> Absent, power |-> Absent, voltage |-> Absent,
     current |-> Absent]

\* The documents published on the data topic.
Documents ==
    {EmptyDocument,
     [EmptyDocument EXCEPT !.meters = Meters(<<[power |-> Number(100)]>>)],
     [EmptyDocument EXCEPT !.meters = Meters(<<[power |-> Absent]>>)],
     [EmptyDocument EXCEPT !.meters = Meters(<<>>)],
     [EmptyDocument EXCEPT !.meters = Text, !.current = Text],
     [EmptyDocument EXCEPT !.ENERGY = Energy(Number(50), Number(231), Number(216))],
     [EmptyDocument EXCEPT !.ENERGY = Energy(Text, Number(229), Absent),
                           !.power = Number(7)],
     [EmptyDocument EXCEPT !.power = Number(7)],
     [EmptyDocument EXCEPT !.voltage = Number(228), !.current = Number(30)],
     [EmptyDocument EXCEPT !.meters = Meters(<<[power |-> Number(0)]>>),
                           !.ENERGY = Energy(Number(50), Number(231), Number(216)),
                           !.power = Number(7)]}

\* The payloads of the data topic: what deserializeJson rejects, or a
\* document.
DataPayloads ==
    {[json |-> FALSE, doc |-> EmptyDocument]}
        \cup {[json |-> TRUE, doc |-> doc] : doc \in Documents}

\* parseShelly: the first element of a non-empty "meters" array gives the
\* power, the voltage is assumed, the current follows from them.
parseShelly(reading, doc) ==
    IF doc.meters.kind = "array" /\ Len(doc.meters.items) > 0
    THEN LET meter == doc.meters.items[1]
             power == IF IsFloat(meter.power) THEN meter.power.n ELSE reading.power
         IN  [parsed |-> TRUE,
              reading |-> [reading EXCEPT
                              !.power = power,
                              !.voltage = SHELLY_VOLTAGE,
                              !.current = IF power > 0
                                          THEN (power * 1000) \div SHELLY_VOLTAGE
                                          ELSE reading.current]]
    ELSE [parsed |-> FALSE, reading |-> reading]

\* parseTasmota: the members of the "ENERGY" object that are numbers.
parseTasmota(reading, doc) ==
    IF doc.ENERGY.kind = "object"
    THEN [parsed |-> TRUE,
          reading |-> [reading EXCEPT
                          !.power = IF IsFloat(doc.ENERGY.Power)
                                    THEN doc.ENERGY.Power.n ELSE @,
                          !.voltage = IF IsFloat(doc.ENERGY.Voltage)
                                      THEN doc.ENERGY.Voltage.n ELSE @,
                          !.current = IF IsFloat(doc.ENERGY.Current)
                                      THEN doc.ENERGY.Current.n ELSE @]]
    ELSE [parsed |-> FALSE, reading |-> reading]

\* extractJsonValue: the top-level member of that name, when it is a number.
extractJsonValue(doc, path) == path # "" /\ IsFloat(doc[path])

\* parseGeneric: each configured path that names a number gives its field.
parseGeneric(meter, doc) ==
    LET reading == meter._lastReading IN
    [parsed |-> \/ extractJsonValue(doc, meter._jsonPathPower)
                \/ extractJsonValue(doc, meter._jsonPathVoltage)
                \/ extractJsonValue(doc, meter._jsonPathCurrent),
     reading |-> [reading EXCEPT
                     !.power = IF extractJsonValue(doc, meter._jsonPathPower)
                               THEN doc[meter._jsonPathPower].n ELSE @,
                     !.voltage = IF extractJsonValue(doc, meter._jsonPathVoltage)
                                 THEN doc[meter._jsonPathVoltage].n ELSE @,
                     !.current = IF extractJsonValue(doc, meter._jsonPathCurrent)
                                 THEN doc[meter._jsonPathCurrent].n ELSE @]]

\* tryAutoParse: Shelly, then Tasmota, each setting _format when it parses;
\* then the top-level members "power", "voltage" and "current".
tryAutoParse(meter, doc) ==
    LET reading == meter._lastReading
        shelly == parseShelly(reading, doc)
        tasmota == parseTasmota(reading, doc) IN
    IF shelly.parsed
    THEN [parsed |-> TRUE, reading |-> shelly.reading, format |-> "shelly"]
    ELSE IF tasmota.parsed
    THEN [parsed |-> TRUE, reading |-> tasmota.reading, format |-> "tasmota"]
    ELSE [parsed |-> \/ IsFloat(doc.power) \/ IsFloat(doc.voltage) \/ IsFloat(doc.current),
          reading |-> [reading EXCEPT
                          !.power = IF IsFloat(doc.power) THEN doc.power.n ELSE @,
                          !.voltage = IF IsFloat(doc.voltage) THEN doc.voltage.n ELSE @,
                          !.current = IF IsFloat(doc.current) THEN doc.current.n ELSE @],
          format |-> meter._format]

\* The switch of onMqttData(JsonDocument&).
ParseByFormat(meter, doc) ==
    CASE meter._format = "shelly" ->
             parseShelly(meter._lastReading, doc) @@ [format |-> meter._format]
      [] meter._format = "tasmota" ->
             parseTasmota(meter._lastReading, doc) @@ [format |-> meter._format]
      [] meter._format = "generic" ->
             parseGeneric(meter, doc) @@ [format |-> meter._format]
      [] OTHER -> tryAutoParse(meter, doc)

\* isStale and isConnected at the time now.
isStale(meter, now) == now - meter._lastUpdateTime > STALE_THRESHOLD_MS
isConnected(meter, now) == meter._hasData /\ (meter._deviceOnline \/ ~isStale(meter, now))


\* tolower on the letters.
UpperCase == <<"A", "B", "C", "D", "E", "F", "G", "H", "I", "J", "K", "L", "M",
               "N", "O", "P", "Q", "R", "S", "T", "U", "V", "W", "X", "Y", "Z">>
LowerCase == <<"a", "b", "c", "d", "e", "f", "g", "h", "i", "j", "k", "l", "m",
               "n", "o", "p", "q", "r", "s", "t", "u", "v", "w", "x", "y", "z">>
tolower(c) ==
    IF \E k \in 1..Len(UpperCase) : UpperCase[k] = c
    THEN LowerCase[CHOOSE k \in 1..Len(UpperCase) : UpperCase[k] = c]
    ELSE c

\* The words of the last-will topic, as sequences of characters.
WordOnline == <<"O", "n", "l", "i", "n", "e">>
WordOffline == <<"O", "f", "f", "l", "i", "n", "e">>
WordTrue == <<"t", "r", "u", "e">>
WordFalse == <<"f", "a", "l", "s", "e">>

\* length >= n && strncasecmp(payload, word, n) == 0, n the length of word.
StartsWith(payload, word) ==
    /\ Len(payload) >= Len(word)
    /\ \A k \in 1..Len(word) : tolower(payload[k]) = tolower(word[k])

\* The payloads published on the last-will topic: the four words in some
\* spellings, a word followed by a line feed or a digit, a word cut short,
\* other text, nothing.
LwtPayloads ==
    {WordOnline, WordOffline, WordTrue, WordFalse,
     <<"O", "N", "L", "I", "N", "E">>, <<"o", "f", "f", "L", "i", "n", "e">>,
     <<"F", "a", "l", "s", "e">>,
     WordOffline \o <<"\n">>, WordTrue \o <<"1">>,
     <<"O", "n", "l", "i", "n">>, <<"o", "n">>, <<"0">>, <<>>}

\* A payload is one of the four words, whatever the case of its letters.
IsWord(payload) ==
    \E word \in {WordOnline, WordOffline, WordTrue, WordFalse} :
        Len(payload) = Len(word) /\ StartsWith(payload, word)

\* A payload begins with one of the four words.
BeginsWithWord(payload) ==
    \E word \in {WordOnline, WordOffline, WordTrue, WordFalse} : StartsWith(payload, word)

\* MQTTPowerMeter(topic, format): the manager constructs the meter anew.
MqttConstruct(format) ==
    /\ mq' = [mq EXCEPT !.meter = MQTTPowerMeter(format), !.read_ok = FALSE]
    /\ UNCHANGED outsideMqtt

\* setJsonPaths(power, voltage, current, energy).
SetJsonPaths(power, voltage, current) ==
    /\ mq' = [mq EXCEPT !.meter = [@ EXCEPT !._jsonPathPower = power,
                                            !._jsonPathVoltage = voltage,
                                            !._jsonPathCurrent = current,
                                            !._format = "generic",
                                            !.handled = "nothing"]]
    /\ UNCHANGED outsideMqtt

\* The chain of comparisons of onLwtMessage: what the payload says.
LwtSays(payload) ==
    IF StartsWith(payload, WordOnline) THEN "online"
    ELSE IF StartsWith(payload, WordOffline) THEN "offline"
    ELSE IF StartsWith(payload, WordTrue) THEN "online"
    ELSE IF StartsWith(payload, WordFalse) THEN "offline"
    ELSE "unknown"

\* The same and the kind of the payload, tabulated.
LwtTable ==
    [payload \in LwtPayloads |->
        [said |-> LwtSays(payload),
         kind |-> IF IsWord(payload) THEN "lwt_word"
                  ELSE IF BeginsWithWord(payload) THEN "lwt_longer"
                  ELSE "lwt_other"]]

\* onLwtMessage(payload, length).
OnLwtMessage(payload) ==
    /\ LET said == LwtTable[payload].said
           kind == LwtTable[payload].kind IN
       mq' = [mq EXCEPT !.meter =
                 IF said = "unknown" THEN [@ EXCEPT !.handled = kind, !.lwt_seen = TRUE]
                 ELSE [@ EXCEPT !._deviceOnline = (said = "online"),
                                !.lwt_said = said,
                                !.lwt_seen = TRUE,
                                !.handled = kind]]
    /\ UNCHANGED outsideMqtt

\* Variant of the failure branch that forgets the data.
ParseFailedForgets(meter) ==
    [meter EXCEPT !._lastError = "Failed to parse MQTT data", !._hasData = FALSE]
\* The else branch of onMqttData(JsonDocument&).
ParseFailed(meter) ==
    [meter EXCEPT !._lastError = "Failed to parse MQTT data"]

\* onMqttData(payload, length) with onMqttData(JsonDocument&): a payload
\* that is not JSON sets _lastError; a document is parsed by the format,
\* and stamped when it parses.
OnMqttData(payload) ==
    /\ LET meter == mq.meter
           outcome == ParseByFormat(meter, payload.doc) IN
       mq' = [mq EXCEPT !.meter =
                 IF ~payload.json
                 THEN [meter EXCEPT !._lastError = "JSON parse error",
                                    !.handled = "data_malformed"]
                 ELSE IF outcome.parsed
                 THEN [meter EXCEPT !._format = outcome.format,
                                    !._lastReading =
                                        [outcome.reading EXCEPT !.timestamp = mq.now,
                                                               !.valid = TRUE],
                                    !._lastUpdateTime = mq.now,
                                    !._hasData = TRUE,
                                    !._lastError = "",
                                    !.parsed_once = TRUE,
                                    !.handled = "data_parsed"]
                 ELSE [ParseFailed(meter) EXCEPT !.handled = "data_unparsed"]]
    /\ UNCHANGED outsideMqtt

\* read(reading): true with the last reading, or false.
MqttRead ==
    /\ mq' = [mq EXCEPT !.read_ok = isConnected(mq.meter, mq.now)]
    /\ UNCHANGED outsideMqtt

\* millis() has advanced.
MqttTick ==
    /\ mq.now < MaxMillis
    /\ mq' = [mq EXCEPT !.now = @ + 1]
    /\ UNCHANGED outsideMqtt

\* The format arguments of the constructor and the JSON paths of the
\* manager.
FormatArguments == {"shelly", "tasmota", "generic", "auto", ""}
JsonPaths == {<<"power", "voltage", "current">>, <<"power", "", "">>, <<"", "", "">>}

MqttNext ==
    \/ \E format \in FormatArguments : MqttConstruct(format)
    \/ \E paths \in JsonPaths : SetJsonPaths(paths[1], paths[2], paths[3])
    \/ \E payload \in LwtPayloads : OnLwtMessage(payload)
    \/ \E payload \in DataPayloads : OnMqttData(payload)
    \/ MqttRead
    \/ MqttTick

MqttSpec == OtaIdle /\ [][MqttNext]_vars

(***************************************************************************)
(* Properties of the MQTT power meter.                                     *)
(***************************************************************************)
\* The last successful parse is within the staleness threshold.
Fresh == mq.now - mq.meter._lastUpdateTime <= STALE_THRESHOLD_MS

\* C16: isConnected() is true exactly when a payload has been parsed and
\* the last-will topic says online or the last parse is within the
\* staleness threshold.
C16_ConnectedIffParsedAndLive ==
    isConnected(mq.meter, mq.now)
        <=> (mq.meter.parsed_once /\ (mq.meter.lwt_said = "online" \/ Fresh))

\* C17: in AUTO mode the dialect is latched on the first success: once a
\* payload has been parsed the format is no longer AUTO.
C17_AutoLatchesOnFirstSuccess ==
    mq.meter.parsed_once => mq.meter._format # "auto"

\* What a message that is not understood must leave alone: the last
\* reading, the has-data flag, the last-update time and the online flag.
DataAndLivenessKept ==
    /\ mq'.meter._lastReading = mq.meter._lastReading
    /\ mq'.meter._hasData = mq.meter._hasData
    /\ mq'.meter._lastUpdateTime = mq.meter._lastUpdateTime
    /\ mq'.meter._deviceOnline = mq.meter._deviceOnline

\* A step in which a message of one of the kinds has changed the meter.
Handled(kinds) == mq'.meter # mq.meter /\ mq'.meter.handled \in kinds

\* C18 as stated: a payload that is malformed or matches no dialect changes
\* neither the reading, nor the has-data flag, nor the last-update time,
\* nor the online flag; an LWT payload that is none of the four words
\* leaves the online flag unchanged; no message resets the has-data flag.
C18_GarbageChangesNothing ==
    [][/\ Handled({"data_malformed", "data_unparsed"}) => DataAndLivenessKept
       /\ Handled({"lwt_longer", "lwt_other"})
              => mq'.meter._deviceOnline = mq.meter._deviceOnline
       /\ (Handled({"data_malformed", "data_unparsed", "data_parsed",
                    "lwt_word", "lwt_longer", "lwt_other"}) /\ mq.meter._hasData)
              => mq'.meter._hasData]_vars

\* C18, amended: as stated, but the LWT payloads that leave the online flag
\* unchanged are those that do not begin with one of the four words.
C18_UnrecognisedChangesNothing ==
    [][/\ Handled({"data_malformed", "data_unparsed"})
              => DataAndLivenessKept /\ mq'.meter._format = mq.meter._format
       /\ Handled({"lwt_other"}) => mq'.meter._deviceOnline = mq.meter._deviceOnline
       /\ (Handled({"data_malformed", "data_unparsed", "data_parsed",
                    "lwt_word", "lwt_longer", "lwt_other"}) /\ mq.meter._hasData)
              => mq'.meter._hasData]_vars

\* C18 happens: a payload that is not JSON has been handled after a reading
\* was taken, at a later time, and the reading is still in place.
C18_Witness ==
    /\ mq.meter.handled = "data_malformed"
    /\ mq.meter._lastError = "JSON parse error"
    /\ mq.meter._hasData
    /\ mq.meter._lastReading.valid
    /\ mq.meter._lastReading.timestamp = mq.meter._lastUpdateTime
    /\ mq.meter._lastUpdateTime < mq.now

(***************************************************************************)
(* Part 4.  The status change detector of the display side                 *)
(* (status_change_detector.cpp).  ui_state_t is declared in ui/ui.h; its   *)
(* fields are taken as hasChanged uses them: the ones given to             *)
(* floatChanged are floats, the others integers, booleans and one string.  *)
(***************************************************************************)
\* The thresholds of status_change_detector.h, in the unit of their fields:
\* 0.5 degrees in tenths, 0.1 bar in hundredths, 10 W in watts, 0.5 g in
\* tenths, 0.1 ml/s in hundredths.
STATUS_TEMP_THRESHOLD == 5
STATUS_PRESSURE_THRESHOLD == 10
STATUS_POWER_THRESHOLD == 10
STATUS_WEIGHT_THRESHOLD == 5
STATUS_FLOW_RATE_THRESHOLD == 10

\* abs and fabsf on numbers.
Abs(n) == IF n < 0 THEN 0 - n ELSE n

\* Variant: only a difference above the threshold counts.
floatExceeded(current, previous, threshold) ==
    /\ current # NaN
    /\ previous # NaN
    /\ Abs(current[1] - previous[1]) > threshold

\* floatChanged: fabsf(current - previous) >= threshold.  With a NaN on
\* either side the difference is NaN and the comparison is false.
floatChanged(current, previous, threshold) ==
    /\ current # NaN
    /\ previous # NaN
    /\ Abs(current[1] - previous[1]) >= threshold

\* Variant: the brew time counts only when it has moved by a second.
BrewTimeBySeconds(current, previous) ==
    /\ current.is_brewing
    /\ Abs(current.brew_time_ms - previous.brew_time_ms) >= 1000

\* hasChanged, the brew time: compared only while brewing, and then any
\* difference counts.
BrewTimeChanged(current, previous) ==
    /\ current.is_brewing
    /\ current.brew_time_ms # previous.brew_time_ms

\* hasChanged, the comparisons: whether `changed` is true after them.
Changed(current, previous) ==
    \/ current.machine_state # previous.machine_state
    \/ current.heating_strategy # previous.heating_strategy
    \/ current.is_heating # previous.is_heating
    \/ current.is_brewing # previous.is_brewing
    \/ floatChanged(current.brew_temp, previous.brew_temp, STATUS_TEMP_THRESHOLD)
    \/ floatChanged(current.brew_setpoint, previous.brew_setpoint,
                    STATUS_TEMP_THRESHOLD)
    \/ floatChanged(current.steam_temp, previous.steam_temp, STATUS_TEMP_THRESHOLD)
    \/ floatChanged(current.steam_setpoint, previous.steam_setpoint,
                    STATUS_TEMP_THRESHOLD)
    \/ floatChanged(current.group_temp, previous.group_temp, STATUS_TEMP_THRESHOLD)
    \/ floatChanged(current.pressure, previous.pressure, STATUS_PRESSURE_THRESHOLD)
    \/ Abs(current.power_watts - previous.power_watts) >= STATUS_POWER_THRESHOLD
    \/ BrewTimeChanged(current, previous)
    \/ floatChanged(current.brew_weight, previous.brew_weight,
                    STATUS_WEIGHT_THRESHOLD)
    \/ floatChanged(current.flow_rate, previous.flow_rate,
                    STATUS_FLOW_RATE_THRESHOLD)
    \/ floatChanged(current.target_weight, previous.target_weight,
                    STATUS_WEIGHT_THRESHOLD)
    \/ current.pico_connected # previous.pico_connected
    \/ current.wifi_connected # previous.wifi_connected
    \/ current.mqtt_connected # previous.mqtt_connected
    \/ current.scale_connected # previous.scale_connected
    \/ current.cloud_connected # previous.cloud_connected
    \/ current.water_low # previous.water_low
    \/ current.alarm_active # previous.alarm_active
    \/ current.alarm_code # previous.alarm_code
    \/ current.cleaning_reminder # previous.cleaning_reminder
    \/ current.brew_count # previous.brew_count
    \/ Abs(current.wifi_rssi - previous.wifi_rssi) >= 10
    \/ current.wifi_ap_mode # previous.wifi_ap_mode
    \/ current.wifi_ip # previous.wifi_ip

\* Variant: the stored snapshot is never replaced.
StoredNever(current, previous, changed) == previous

\* hasChanged, the end: the snapshot is stored when something changed.
Stored(current, previous, changed) == IF changed THEN current ELSE previous

\* A machine that is heated up and idle, on the network.
IdleSnapshot ==
    [ZeroSnapshot EXCEPT
        !.machine_state = 2, !.heating_strategy = 1, !.is_heating = TRUE,
        !.brew_temp = Float(921), !.brew_setpoint = Float(930),
        !.steam_temp = Float(1400), !.steam_setpoint = Float(1450),
        !.group_temp = Float(880), !.pressure = Float(100),
        !.power_watts = 1200, !.target_weight = Float(360),
        !.pico_connected = TRUE, !.wifi_connected = TRUE,
        !.mqtt_connected = TRUE, !.brew_count = 41, !.wifi_rssi = 0 - 60,
        !.wifi_ip = "192.168.1.20"]

\* The same machine one second into a brew.
BrewingSnapshot ==
    [IdleSnapshot EXCEPT
        !.machine_state = 3, !.is_brewing = TRUE, !.brew_time_ms = 1000,
        !.pressure = Float(900), !.brew_weight = Float(12),
        !.flow_rate = Float(150)]

\* The snapshots given to hasChanged: all zeros, idle, brewing, and those
\* that differ from the idle or the brewing one in one field, below its
\* threshold, at its threshold, or by a NaN.
Snapshots ==
    {ZeroSnapshot, IdleSnapshot, BrewingSnapshot}
    \cup {[IdleSnapshot EXCEPT !.brew_temp = t] :
            t \in {Float(923), Float(926), Float(916), NaN}}
    \cup {[IdleSnapshot EXCEPT !.pressure = x] : x \in {Float(109), Float(110)}}
    \cup {[IdleSnapshot EXCEPT !.power_watts = w] : w \in {1209, 1210}}
    \cup {[IdleSnapshot EXCEPT !.wifi_rssi = r] : r \in {0 - 69, 0 - 70}}
    \cup {[IdleSnapshot EXCEPT !.brew_time_ms = 500],
          [IdleSnapshot EXCEPT !.machine_state = 4],
          [IdleSnapshot EXCEPT !.mqtt_connected = FALSE],
          [IdleSnapshot EXCEPT !.water_low = TRUE],
          [IdleSnapshot EXCEPT !.alarm_active = TRUE, !.alarm_code = 3],
          [IdleSnapshot EXCEPT !.wifi_ip = "192.168.1.21"],
          [IdleSnapshot EXCEPT !.steam_temp = NaN, !.group_temp = NaN]}
    \cup {[BrewingSnapshot EXCEPT !.brew_time_ms = ms] : ms \in {1001, 2000}}
    \cup {[BrewingSnapshot EXCEPT !.brew_weight = g] : g \in {Float(16), Float(17)}}
    \cup {[BrewingSnapshot EXCEPT !.flow_rate = f] : f \in {Float(159), Float(160)}}
    \cup {[BrewingSnapshot EXCEPT !.brew_temp = NaN, !.brew_time_ms = 1001]}

\* hasChanged(current).
HasChanged(current) ==
    /\ IF ~det._initialized
       THEN det' = [det EXCEPT !._previous = current,
                               !._initialized = TRUE,
                               !.current = current,
                               !.before = det._previous,
                               !.returned = TRUE,
                               !.drift = FALSE,
                               !.queried = FALSE, !.asked = ZeroSnapshot, !.fields = {},
                               !.call = "first"]
       ELSE LET changed == Changed(current, det._previous)
            IN det' = [det EXCEPT
                        !._previous = Stored(current, det._previous, changed),
                        !.current = current,
                        !.before = det._previous,
                        !.returned = changed,
                        !.queried = FALSE, !.asked = ZeroSnapshot, !.fields = {},
                        !.drift = /\ det.call # "none"
                                  /\ ~det.returned
                                  /\ det.current # det._previous
                                  /\ ~Changed(current, det.current),
                        !.call = IF /\ det.call # "none"
                                    /\ det.returned
                                    /\ det.current = current
                                 THEN "repeat" ELSE "other"]
    /\ UNCHANGED outsideDetector

\* reset().
DetectorReset ==
    /\ det' = [det EXCEPT !._initialized = FALSE,
                          !._previous = ZeroSnapshot,
                          !.drift = FALSE,
                          !.queried = FALSE, !.asked = ZeroSnapshot, !.fields = {},
                          !.call = "none"]
    /\ UNCHANGED outsideDetector

\* The groups of ChangedFields, and the value of "ChangedFields fields;":
\* no group marked.
AllGroups ==
    {"machine_state", "machine_mode", "heating_strategy", "is_heating", "is_brewing",
     "temps", "pressure", "power", "scale_weight", "scale_flow_rate",
     "scale_connected", "brew_time", "target_weight", "connections", "water_low",
     "alarm", "cleaning", "wifi", "mqtt", "stats", "esp32"}
NoFields == {}

\* The groups marked when cond holds.
Mark(cond, groups) == IF cond THEN groups ELSE {}

\* Variant: the brew time marks no group.
BrewTimeUnmarked(current, previous) == {}

\* getChangedFields, the brew time: marked while brewing when it differs.
BrewTimeMarked(current, previous) ==
    Mark(current.is_brewing /\ current.brew_time_ms # previous.brew_time_ms,
         {"brew_time"})

\* getChangedFields(current) with the members _initialized and _previous:
\* the groups marked in the value returned.
getChangedFields(current, initialized, previous) ==
    IF ~initialized THEN NoFields \cup AllGroups
    ELSE NoFields
         \cup Mark(current.machine_state # previous.machine_state,
                   {"machine_state", "machine_mode"})
         \cup Mark(current.heating_strategy # previous.heating_strategy,
                   {"heating_strategy"})
         \cup Mark(current.is_heating # previous.is_heating, {"is_heating"})
         \cup Mark(current.is_brewing # previous.is_brewing, {"is_brewing"})
         \cup Mark(\/ floatChanged(current.brew_temp, previous.brew_temp,
                                   STATUS_TEMP_THRESHOLD)
                   \/ floatChanged(current.brew_setpoint, previous.brew_setpoint,
                                   STATUS_TEMP_THRESHOLD)
                   \/ floatChanged(current.steam_temp, previous.steam_temp,
                                   STATUS_TEMP_THRESHOLD)
                   \/ floatChanged(current.steam_setpoint, previous.steam_setpoint,
                                   STATUS_TEMP_THRESHOLD)
                   \/ floatChanged(current.group_temp, previous.group_temp,
                                   STATUS_TEMP_THRESHOLD),
                   {"temps"})
         \cup Mark(floatChanged(current.pressure, previous.pressure,
                                STATUS_PRESSURE_THRESHOLD), {"pressure"})
         \cup Mark(Abs(current.power_watts - previous.power_watts)
                       >= STATUS_POWER_THRESHOLD, {"power"})
         \cup Mark(floatChanged(current.brew_weight, previous.brew_weight,
                                STATUS_WEIGHT_THRESHOLD), {"scale_weight"})
         \cup Mark(floatChanged(current.flow_rate, previous.flow_rate,
                                STATUS_FLOW_RATE_THRESHOLD), {"scale_flow_rate"})
         \cup Mark(current.scale_connected # previous.scale_connected,
                   {"scale_connected"})
         \cup BrewTimeMarked(current, previous)
         \cup Mark(floatChanged(current.target_weight, previous.target_weight,
                                STATUS_WEIGHT_THRESHOLD), {"target_weight"})
         \cup Mark(\/ current.pico_connected # previous.pico_connected
                   \/ current.wifi_connected # previous.wifi_connected
                   \/ current.mqtt_connected # previous.mqtt_connected
                   \/ current.scale_connected # previous.scale_connected
                   \/ current.cloud_connected # previous.cloud_connected,
                   {"connections"})
         \cup Mark(current.water_low # previous.water_low, {"water_low"})
         \cup Mark(\/ current.alarm_active # previous.alarm_active
                   \/ current.alarm_code # previous.alarm_code, {"alarm"})
         \cup Mark(\/ current.cleaning_reminder # previous.cleaning_reminder
                   \/ current.brew_count # previous.brew_count, {"cleaning"})
         \cup Mark(\/ current.wifi_ap_mode # previous.wifi_ap_mode
                   \/ current.wifi_ip # previous.wifi_ip
                   \/ Abs(current.wifi_rssi - previous.wifi_rssi) >= 10, {"wifi"})

\* getChangedFields(current): the members are read, none is written.
GetChangedFields(current) ==
    /\ det' = [det EXCEPT
                  !.queried = TRUE,
                  !.asked = current,
                  !.fields = getChangedFields(current, det._initialized,
                                              det._previous)]
    /\ UNCHANGED outsideDetector

DetectorNext ==
    \/ \E current \in Snapshots : HasChanged(current)
    \/ DetectorReset

\* The detector with both of its queries in use.
QueryNext ==
    \/ \E current \in Snapshots : HasChanged(current)
    \/ \E current \in Snapshots : GetChangedFields(current)
    \/ DetectorReset

QuerySpec == OtaIdle /\ [][QueryNext]_vars

DetectorSpec == OtaIdle /\ [][DetectorNext]_vars

(***************************************************************************)
(* Properties of the status change detector.                               *)
(***************************************************************************)
\* C19: a hasChanged call with the snapshot of the call right before it,
\* which returned true, returns false; the first call on a fresh or reset
\* detector returns true.
C19_SecondCallSeesNoChange ==
    /\ det.call = "repeat" => ~det.returned
    /\ det.call = "first" => det.returned

\* C19 happens: a brewing snapshot with a NaN in it was given twice in a
\* row to a detector that held another snapshot.
C19_Witness ==
    /\ det.call = "repeat"
    /\ det.current.is_brewing
    /\ det.current.brew_temp = NaN
    /\ det._previous = det.current
    /\ ~det.returned

\* C20 as stated: every hasChanged call with a snapshot whose is_brewing
\* flag is true returns true.
C20_BrewingAlwaysChanged ==
    (det.call # "none" /\ det.current.is_brewing) => det.returned

\* C20, amended: a hasChanged call with a snapshot whose is_brewing flag is
\* true and whose brew time differs from the stored one returns true; a call
\* with the stored snapshot itself returns false, brewing or not.
C20_BrewTimeDifferenceIsAChange ==
    /\ (/\ det.call # "none"
        /\ det.current.is_brewing
        /\ det.current.brew_time_ms # det.before.brew_time_ms) => det.returned
    /\ (det.call = "other" /\ det.current = det.before) => ~det.returned

\* C20 happens: during a brew the snapshot differed from the stored one by
\* one millisecond of brew time only, and the call returned true.
C20_Witness ==
    /\ det.call = "other"
    /\ det.current.is_brewing
    /\ det.before = [det.current EXCEPT !.brew_time_ms = @ - 1]
    /\ det.returned

(***************************************************************************)
(* Part 5.  The power meter manager of the display side                    *)
(* (power_meter_manager.cpp): polling of the MQTT meter and the daily      *)
(* energy.  Energies are in Wh, times in ms.                               *)
(***************************************************************************)
\* The largest millis() reached.
MaxUptime == 3000

POLL_INTERVAL_MS == 1000

\* time(nullptr) and localtime() as the wall clock goes: not yet set by
\* NTP (time() <= 1000000), then two days of one year and two of the next.
WallClock ==
    <<[synced |-> FALSE, tm_yday |-> 0, year |-> 1970],
      [synced |-> TRUE, tm_yday |-> 363, year |-> 2025],
      [synced |-> TRUE, tm_yday |-> 364, year |-> 2025],
      [synced |-> TRUE, tm_yday |-> 0, year |-> 2026],
      [synced |-> TRUE, tm_yday |-> 1, year |-> 2026]>>

\* The cumulative import energies a meter reports: start, growth, a meter
\* that was reset, and a total below zero, which the parsers accept as any
\* other number.
Energies == {0, 10000, 10050, 50, 0 - 2000}

\* What MQTTPowerMeter::read gives the manager: false, or true with the
\* meter's last reading, which is valid once there is data.
MeterReads ==
    {[ok |-> FALSE]} \cup {[ok |-> TRUE, energy_import |-> e] : e \in Energies}

\* getTodayKwh().
getTodayKwh(m) ==
    IF ~m._lastReading.valid \/ ~m._dayStartSet
    THEN 0
    ELSE LET today == m._lastReading.energy_import - m._dayStartKwh
         IN  IF today < 0 THEN m._lastReading.energy_import ELSE today

\* resetDailyEnergy(): the new day start.
DayStart(m) == IF m._lastReading.valid THEN m._lastReading.energy_import ELSE 0

\* loop(), the poll of the meter.
Polled(m, read) ==
    IF m.has_meter /\ m.millis - m._lastPollTime >= POLL_INTERVAL_MS
    THEN IF read.ok
         THEN [m EXCEPT !._lastPollTime = m.millis,
                        !._lastReading = [valid |-> TRUE,
                                          energy_import |-> read.energy_import],
                        !._lastReadTime = m.millis]
         ELSE [m EXCEPT !._lastPollTime = m.millis]
    ELSE m

\* loop(), the first capture of the day start.
DayStartCaptured(m, now) ==
    IF ~m._dayStartSet /\ m._lastReading.valid
    THEN [m EXCEPT !._dayStartKwh = m._lastReading.energy_import,
                   !._dayStartSet = TRUE,
                   !._lastDayOfYear = now.tm_yday,
                   !._lastYear = now.year]
    ELSE m

\* loop(), the reset at midnight.
MidnightReset(m, now) ==
    IF m._dayStartSet /\ (now.tm_yday # m._lastDayOfYear \/ now.year # m._lastYear)
    THEN [m EXCEPT !._dayStartKwh = DayStart(m),
                   !._dayStartSet = TRUE,
                   !._lastDayOfYear = now.tm_yday,
                   !._lastYear = now.year,
                   !.rolled = TRUE]
    ELSE m

\* loop().
ManagerLoop(read) ==
    /\ LET m == [mgr EXCEPT !.rolled = FALSE]
           now == WallClock[mgr.clock]
       IN  mgr' = IF ~m._enabled THEN m
                  ELSE IF ~now.synced THEN Polled(m, read)
                  ELSE MidnightReset(DayStartCaptured(Polled(m, read), now), now)
    /\ UNCHANGED outsideManager

\* setEnabled(enabled).
ManagerSetEnabled(enabled) ==
    /\ mgr' = [mgr EXCEPT !._enabled = enabled, !.rolled = FALSE]
    /\ UNCHANGED outsideManager

\* configureMqtt(topic, format): begin() of the new meter returns true.
ConfigureMqtt ==
    /\ mgr' = [mgr EXCEPT !.has_meter = TRUE, !.rolled = FALSE]
    /\ UNCHANGED outsideManager

\* setSource(NONE) while the source is MQTT: cleanupMeter().
SetSourceNone ==
    /\ mgr.has_meter
    /\ mgr' = [mgr EXCEPT !.has_meter = FALSE, !.rolled = FALSE]
    /\ UNCHANGED outsideManager

\* resetDailyEnergy(), called from outside loop().
ResetDailyEnergy ==
    /\ mgr' = [mgr EXCEPT !._dayStartKwh = DayStart(mgr),
                          !._dayStartSet = TRUE,
                          !.rolled = FALSE]
    /\ UNCHANGED outsideManager

\* 500 ms pass.
ManagerTick ==
    /\ mgr.millis < MaxUptime
    /\ mgr' = [mgr EXCEPT !.millis = @ + 500, !.rolled = FALSE]
    /\ UNCHANGED outsideManager

\* The wall clock is set, or a day passes.
WallClockTick ==
    /\ mgr.clock < Len(WallClock)
    /\ mgr' = [mgr EXCEPT !.clock = @ + 1, !.rolled = FALSE]
    /\ UNCHANGED outsideManager

ManagerNext ==
    \/ \E read \in MeterReads : ManagerLoop(read)
    \/ \E enabled \in BOOLEAN : ManagerSetEnabled(enabled)
    \/ ConfigureMqtt
    \/ SetSourceNone
    \/ ResetDailyEnergy
    \/ ManagerTick
    \/ WallClockTick

ManagerSpec == OtaIdle /\ [][ManagerNext]_vars

(***************************************************************************)
(* Properties of the power meter manager.                                  *)
(***************************************************************************)
\* C21: right after loop() has seen another day or year than the recorded
\* one, the day start is the current import energy and getTodayKwh() is 0;
\* once the day start is captured getTodayKwh() is current minus day start,
\* or current when that is negative; and it is never negative.
C21_DailyEnergyRollsOver ==
    /\ mgr.rolled => /\ mgr._dayStartKwh = mgr._lastReading.energy_import
                     /\ getTodayKwh(mgr) = 0
    /\ (mgr._dayStartSet /\ mgr._lastReading.valid)
           => LET today == mgr._lastReading.energy_import - mgr._dayStartKwh
              IN  getTodayKwh(mgr) = IF today < 0
                                     THEN mgr._lastReading.energy_import
                                     ELSE today
    /\ getTodayKwh(mgr) >= 0

(***************************************************************************)
(* Part 6.  The PID controller (pid_init and pid_compute of the PID        *)
(* tests).  Floats are integers in thousandths, products and quotients     *)
(* truncated; NaN is as in the detector, every operation on it gives NaN   *)
(* and every comparison with it is false.                                  *)
(***************************************************************************)
MaxCalls == 3

PID_DERIVATIVE_FILTER_TAU == 500
PID_OUTPUT_MAX == 100000
PID_OUTPUT_MIN == 0
\* The 0.001f of "if (pid->ki > 0.001f)".
KI_EPSILON == 1

\* Integer quotient truncated towards zero.
Quot(a, b) ==
    IF (a < 0) = (b < 0) THEN Abs(a) \div Abs(b) ELSE 0 - (Abs(a) \div Abs(b))

\* float +, -, *, /, unary - and the comparisons >, <, <=.
FAdd(a, b) == IF a = NaN \/ b = NaN THEN NaN ELSE Float(a[1] + b[1])
FSub(a, b) == IF a = NaN \/ b = NaN THEN NaN ELSE Float(a[1] - b[1])
FMul(a, b) == IF a = NaN \/ b = NaN THEN NaN ELSE Float(Quot(a[1] * b[1], 1000))
FDiv(a, b) == IF a = NaN \/ b = NaN THEN NaN ELSE Float(Quot(a[1] * 1000, b[1]))
FNeg(a) == IF a = NaN THEN NaN ELSE Float(0 - a[1])
FGt(a, b) == a # NaN /\ b # NaN /\ a[1] > b[1]
FLt(a, b) == a # NaN /\ b # NaN /\ a[1] < b[1]
FLe(a, b) == a # NaN /\ b # NaN /\ a[1] <= b[1]

\* The two clamps of pid_compute, each a pair of ifs.
ClampIntegral(integral, max_integral) ==
    LET high == IF FGt(integral, max_integral) THEN max_integral ELSE integral
    IN  IF FLt(high, FNeg(max_integral)) THEN FNeg(max_integral) ELSE high

ClampOutput(output) ==
    LET high == IF FGt(output, Float(PID_OUTPUT_MAX))
                THEN Float(PID_OUTPUT_MAX) ELSE output
    IN  IF FLt(high, Float(PID_OUTPUT_MIN)) THEN Float(PID_OUTPUT_MIN) ELSE high

\* pid_init.
pid_init(kp, ki, kd, setpoint) ==
    [kp |-> kp, ki |-> ki, kd |-> kd,
     setpoint |-> setpoint, setpoint_target |-> setpoint,
     integral |-> Float(0), last_error |-> Float(0),
     last_measurement |-> Float(0), last_derivative |-> Float(0),
     output |-> Float(0), setpoint_ramping |-> FALSE,
     ramp_rate |-> Float(1000), first_run |-> TRUE]

\* Variant: the derivative is skipped on no call.
SkipNever(p) == FALSE

\* "if (pid->first_run)": the call that skips the derivative.
SkipDerivative(p) == p.first_run

\* Variant: the derivative is taken on the error.
ErrorDerivative(p, measurement, error, dt) ==
    FDiv(FNeg(FSub(error, p.last_error)), dt)

\* measurement_derivative.
MeasurementDerivative(p, measurement, error, dt) ==
    FDiv(FSub(measurement, p.last_measurement), dt)

\* pid_compute past its first line: *pid afterwards (st), the value
\* returned and the locals.
Compute(p, measurement, dt) ==
    LET error == FSub(p.setpoint, measurement)
        p_term == FMul(p.kp, error)
        windup == FGt(p.ki, Float(KI_EPSILON))
        integral ==
            IF windup
            THEN ClampIntegral(FAdd(p.integral, FMul(error, dt)),
                               FDiv(Float(PID_OUTPUT_MAX), p.ki))
            ELSE p.integral
        i_term == IF windup THEN FMul(p.ki, integral) ELSE Float(0)
        alpha == FDiv(dt, FAdd(Float(PID_DERIVATIVE_FILTER_TAU), dt))
        last_derivative ==
            IF SkipDerivative(p)
            THEN Float(0)
            ELSE FAdd(FMul(alpha, MeasurementDerivative(p, measurement, error, dt)),
                      FMul(FSub(Float(1000), alpha), p.last_derivative))
        d_term == IF SkipDerivative(p)
                  THEN Float(0)
                  ELSE FMul(FNeg(p.kd), last_derivative)
        sum == FAdd(FAdd(p_term, i_term), d_term)
        output == ClampOutput(sum)
    IN  [st |-> [p EXCEPT !.integral = integral,
                          !.last_measurement = measurement,
                          !.last_derivative = last_derivative,
                          !.first_run = FALSE,
                          !.last_error = error,
                          !.output = output],
         returned |-> output, p_term |-> p_term, i_term |-> i_term,
         d_term |-> d_term, sum |-> sum]

\* pid_compute(pid, measurement, dt); present says that pid is not null.
pid_compute(present, p, measurement, dt) ==
    IF ~present \/ FLe(dt, Float(0))
    THEN [st |-> p, returned |-> Float(0), p_term |-> Float(0),
          i_term |-> Float(0), d_term |-> Float(0), sum |-> Float(0)]
    ELSE Compute(p, measurement, dt)

\* The gains, setpoints, measurements and periods of the calls.
Kps == {Float(2000)}
Kis == {Float(KI_EPSILON), Float(500)}
Kds == {Float(0), Float(1000)}
Setpoints == {Float(80000), Float(90000)}
Measurements == {NaN, Float(80000), Float(100000)}
Periods == {Float(0), Float(0 - 500), Float(500)}

\* pid_init(&g_pid, kp, ki, kd, setpoint).
PidInit(kp, ki, kd, setpoint) ==
    /\ pid' = [PidController EXCEPT !.st = pid_init(kp, ki, kd, setpoint),
                                    !.call = "pid_init"]
    /\ UNCHANGED outsidePid

\* g_pid.setpoint = setpoint, between two calls.
SetSetpoint(setpoint) ==
    /\ pid.call # "none"
    /\ pid.st.setpoint # setpoint
    /\ pid' = [pid EXCEPT !.st.setpoint = setpoint, !.call = "setpoint"]
    /\ UNCHANGED outsidePid

\* pid_compute(&g_pid, measurement, dt), or pid_compute(NULL, measurement, dt),
\* once pid_init has run.
PidCompute(present, measurement, dt) ==
    /\ pid.call # "none"
    /\ pid.calls < MaxCalls
    /\ LET r == pid_compute(present, pid.st, measurement, dt)
       IN  pid' = [st |-> r.st, call |-> "pid_compute", present |-> present,
                   measurement |-> measurement, dt |-> dt, before |-> pid.st,
                   returned |-> r.returned, p_term |-> r.p_term,
                   i_term |-> r.i_term, d_term |-> r.d_term, sum |-> r.sum,
                   calls |-> pid.calls + 1]
    /\ UNCHANGED outsidePid

PidNext ==
    \/ \E kp \in Kps, ki \in Kis, kd \in Kds, setpoint \in Setpoints :
           PidInit(kp, ki, kd, setpoint)
    \/ \E setpoint \in Setpoints : SetSetpoint(setpoint)
    \/ \E present \in BOOLEAN, measurement \in Measurements, dt \in Periods :
           PidCompute(present, measurement, dt)

PidSpec == OtaIdle /\ [][PidNext]_vars

\* The last step was a pid_compute call into g_pid with a positive period.
Computed ==
    /\ pid.call = "pid_compute"
    /\ pid.present
    /\ FGt(pid.dt, Float(0))

(***************************************************************************)
(* Properties of the PID controller.                                       *)
(***************************************************************************)
\* C22: with gains that are not negative and a positive period, whatever the
\* earlier calls, pid_compute returns and stores an output within
\* PID_OUTPUT_MIN .. PID_OUTPUT_MAX.
C22_OutputWithinBounds ==
    Computed =>
        /\ pid.returned = pid.st.output
        /\ FLe(Float(PID_OUTPUT_MIN), pid.returned)
        /\ FLe(pid.returned, Float(PID_OUTPUT_MAX))

\* C23: after a pid_compute call with ki above the epsilon, ki * integral is
\* within -PID_OUTPUT_MAX .. PID_OUTPUT_MAX; with ki at or below the epsilon
\* the call leaves the integral alone.
C23_IntegralWithinWindup ==
    Computed =>
        IF FGt(pid.st.ki, Float(KI_EPSILON))
        THEN /\ FLe(FNeg(Float(PID_OUTPUT_MAX)), FMul(pid.st.ki, pid.st.integral))
             /\ FLe(FMul(pid.st.ki, pid.st.integral), Float(PID_OUTPUT_MAX))
        ELSE pid.st.integral = pid.before.integral

\* C24: a pid_compute call with a period that is not positive, with a NaN
\* measurement or with a null instance returns 0 and changes no field of
\* the controller.
C24_DegenerateCallChangesNothing ==
    (/\ pid.call = "pid_compute"
     /\ \/ ~pid.present
        \/ FLe(pid.dt, Float(0))
        \/ pid.measurement = NaN)
        => /\ pid.returned = Float(0)
           /\ pid.st = pid.before

\* C25: in a pid_compute call the derivative term is the one the call would
\* have had with any other setpoint, and the output is the clamped sum of
\* the call's own proportional and integral terms and that derivative term.
C25_SetpointLeavesDerivative ==
    Computed =>
        \A setpoint \in Setpoints :
            LET other == Compute([pid.before EXCEPT !.setpoint = setpoint],
                                 pid.measurement, pid.dt)
            IN  /\ pid.d_term = other.d_term
                /\ pid.sum = FAdd(FAdd(pid.p_term, pid.i_term), other.d_term)
                /\ pid.returned = ClampOutput(pid.sum)
                /\ pid.st.last_derivative = other.st.last_derivative

\* A call after the setpoint alone was moved (the error of the call before
\* was taken from another setpoint), the measurement being the one of the
\* call before, with a derivative gain and a derivative that is not
\* zero.
C25_Witness ==
    /\ Computed
    /\ FSub(pid.before.setpoint, pid.before.last_measurement)
           # pid.before.last_error
    /\ ~pid.before.first_run
    /\ pid.measurement # NaN
    /\ pid.measurement = pid.before.last_measurement
    /\ pid.before.kd = Float(1000)
    /\ pid.before.last_derivative \notin {NaN, Float(0)}
    /\ pid.d_term \notin {NaN, Float(0)}

\* C26: the first pid_compute call after pid_init, with a measurement and a
\* positive period, has a derivative term of zero, returns the clamped sum of
\* the proportional and integral terms and records the measurement.
C26_FirstCallHasNoDerivative ==
    (/\ Computed
     /\ pid.calls = 1
     /\ pid.measurement # NaN)
        => /\ pid.d_term = Float(0)
           /\ pid.st.last_derivative = Float(0)
           /\ pid.returned = ClampOutput(FAdd(pid.p_term, pid.i_term))
           /\ pid.p_term = FMul(pid.before.kp,
                                FSub(pid.before.setpoint, pid.measurement))
           /\ pid.st.last_measurement = pid.measurement
           /\ ~pid.st.first_run

\* A first call with a derivative gain and a measurement away from zero,
\* whose output is inside the range.
C26_Witness ==
    /\ Computed
    /\ pid.calls = 1
    /\ pid.before.first_run
    /\ pid.before.kd = Float(1000)
    /\ pid.measurement = Float(80000)
    /\ FGt(pid.returned, Float(PID_OUTPUT_MIN))
    /\ FLt(pid.returned, Float(PID_OUTPUT_MAX))

(***************************************************************************)
(* Part 7.  The moving-average filter (filter_moving_avg_* of               *)
(* sensor_utils.h).  Samples are whole numbers and the running sum is       *)
(* exact; the mean is truncated.                                           *)
(***************************************************************************)
MaxPushes == 5

\* The sum of a sequence of samples.
RECURSIVE SumOf(_)
SumOf(samples) ==
    IF samples = <<>> THEN 0 ELSE Head(samples) + SumOf(Tail(samples))

\* The last n of a sequence of samples, or all of them.
LastOf(samples, n) ==
    IF Len(samples) <= n
    THEN samples
    ELSE SubSeq(samples, Len(samples) - n + 1, Len(samples))

\* Variant: nothing leaves the running sum.
EvictedNone(f) == 0

\* What leaves the running sum in an update: the oldest sample, which the
\* new one replaces, once the buffer is full.
Evicted(f) == IF f.count = f.size THEN f.buffer[f.index + 1] ELSE 0

\* filter_moving_avg_update: the filter afterwards.
filter_moving_avg_update(f, value) ==
    [f EXCEPT !.sum = f.sum - Evicted(f) + value,
              !.buffer[f.index + 1] = value,
              !.count = IF f.count < f.size THEN f.count + 1 ELSE f.count,
              !.index = (f.index + 1) % f.size]

\* filter_moving_avg_update: the value returned, from the filter afterwards.
MovingAverageOf(f) == Quot(f.sum, f.count)

\* filter_moving_avg_reset.
filter_moving_avg_reset(f) == [f EXCEPT !.index = 0, !.count = 0, !.sum = 0]

\* The buffer sizes and the samples of the calls.
Sizes == {1, 3, 4}
Samples == {10, 20, 30, 100}

MovingAvgInit(size) ==
    /\ flt' = [f |-> filter_moving_avg_init(size), call |-> "init",
               pushed |-> <<>>, returned |-> 0]
    /\ UNCHANGED outsideFilter

MovingAvgUpdate(value) ==
    /\ Len(flt.pushed) < MaxPushes
    /\ LET f == filter_moving_avg_update(flt.f, value)
       IN  flt' = [f |-> f, call |-> "update",
                   pushed |-> Append(flt.pushed, value),
                   returned |-> MovingAverageOf(f)]
    /\ UNCHANGED outsideFilter

MovingAvgReset ==
    /\ flt' = [f |-> filter_moving_avg_reset(flt.f), call |-> "reset",
               pushed |-> <<>>, returned |-> 0]
    /\ UNCHANGED outsideFilter

FilterNext ==
    \/ \E size \in Sizes : MovingAvgInit(size)
    \/ \E value \in Samples : MovingAvgUpdate(value)
    \/ MovingAvgReset

FilterSpec == OtaIdle /\ [][FilterNext]_vars

\* The samples the filter holds: the last size of those given.
Held == LastOf(flt.pushed, flt.f.size)

(***************************************************************************)
(* Properties of the moving-average filter.                                *)
(***************************************************************************)
\* C27: the running sum is the sum of the samples held and count is at most
\* size; the first update after init or reset returns its sample, and every
\* update returns the mean of the samples held: all of them while fewer than
\* size were given, the last size of them afterwards.
C27_MovingAverageOfHeldSamples ==
    /\ flt.f.sum = SumOf(Held)
    /\ flt.f.count = Len(Held)
    /\ flt.f.count <= flt.f.size
    /\ flt.call = "update" =>
           /\ flt.returned = Quot(SumOf(Held), Len(Held))
           /\ Len(flt.pushed) = 1 => flt.returned = flt.pushed[1]
           /\ \A i \in 1..Len(Held) :
                  flt.f.buffer[((flt.f.index + flt.f.size - i) % flt.f.size) + 1]
                      = Held[Len(Held) - i + 1]

\* The sliding window of the tests: 10, 20, 30 then 100 into a buffer of
\* three gives 50.
C27_Witness ==
    /\ flt.call = "update"
    /\ flt.f.size = 3
    /\ flt.pushed = <<10, 20, 30, 100>>
    /\ flt.returned = 50

(***************************************************************************)
(* Part 8.  The sensor channels (sensors.c): brew NTC, steam NTC and       *)
(* pressure, each validated and then passed through a median and a         *)
(* moving-average filter.  Temperatures are in hundredths of a degree and  *)
(* pressures in thousandths of a bar.                                      *)
(***************************************************************************)
MaxReads == 12

SENSOR_ERROR_THRESHOLD == 10
MEDIAN_FILTER_SIZE_BREW_NTC == 5
MEDIAN_FILTER_SIZE_STEAM_NTC == 5
MEDIAN_FILTER_SIZE_PRESSURE == 3
FILTER_SIZE_BREW_NTC == 8
FILTER_SIZE_STEAM_NTC == 8
FILTER_SIZE_PRESSURE == 4

Channels == {"brew", "steam", "pressure"}

\* filter_median_update: the filter afterwards.
filter_median_update(f, value) ==
    [f EXCEPT !.buffer[f.index + 1] = value,
              !.count = IF f.count < f.size THEN f.count + 1 ELSE f.count,
              !.index = (f.index + 1) % f.size]

\* filter_median_update: the value returned, the middle one of the samples
\* held.
MedianOf(f) ==
    LET held == 1..f.count
        k == f.count \div 2
    IN  CHOOSE x \in {f.buffer[i] : i \in held} :
            /\ Cardinality({i \in held : f.buffer[i] < x}) <= k
            /\ Cardinality({i \in held : f.buffer[i] <= x}) > k

\* What a channel delivers in one sensors_read call: nothing, because the
\* machine type or the PCB has no such input; a reading outside its valid
\* range; or a reading inside it.
AbsentSample == [kind |-> "absent"]
InvalidSample == [kind |-> "invalid"]
ValidSample(value) == [kind |-> "valid", value |-> value]

\* The reading of each channel when it is valid: 93 C, 140 C, 9 bar.
ValidOf(c) ==
    CASE c = "brew" -> ValidSample(9300)
      [] c = "steam" -> ValidSample(14000)
      [] c = "pressure" -> ValidSample(9000)

\* read_brew_ntc, read_steam_ntc and read_pressure: the value returned.
\* An NTC channel returns NAN for a missing or invalid reading, the
\* pressure channel returns 0.0f.
RawOf(c, sample) ==
    IF sample.kind = "valid"
    THEN Float(sample.value)
    ELSE IF c = "pressure" THEN Float(0) ELSE NaN

\* read_brew_ntc, read_steam_ntc and read_pressure: the fault flag and the
\* failure count afterwards.  The count is a uint16_t.
ReadChannel(channel, sample) ==
    CASE sample.kind = "absent" -> channel
      [] sample.kind = "invalid" ->
             [channel EXCEPT !.fault = TRUE,
                             !.error_count = (@ + 1) % 65536]
      [] sample.kind = "valid" ->
             [channel EXCEPT !.fault = FALSE, !.error_count = 0]

\* The ERROR line of the read functions: printed by the call that brings
\* the count to the threshold.
ErrorLogged(channel, sample) ==
    /\ sample.kind = "invalid"
    /\ ReadChannel(channel, sample).error_count = SENSOR_ERROR_THRESHOLD

\* sensors_read: whether the raw value of a channel goes into its filters.
Filtered(c, channel, raw) ==
    IF c = "pressure" THEN ~channel.fault ELSE raw # NaN

\* sensors_read for one channel: read, then median, moving average and the
\* conversion to the stored unit (tenths of a degree, hundredths of a bar).
SensorsReadChannel(c, channel, sample) ==
    LET read == ReadChannel(channel, sample)
        raw == RawOf(c, sample)
        median == filter_median_update(read.median, raw[1])
        avg == filter_moving_avg_update(read.avg, MedianOf(median))
    IN  IF Filtered(c, read, raw)
        THEN [read EXCEPT !.median = median,
                          !.avg = avg,
                          !.stored = Quot(MovingAverageOf(avg), 10)]
        ELSE read

\* sensors_init().  The machine type and the PCB are those of the run.
SensorsInit(varied, pressure_pin) ==
    /\ ~sens.initialised
    /\ sens' =
           [SensorStatics EXCEPT
               !.initialised = TRUE,
               !.pressure_pin = pressure_pin,
               !.varied = varied,
               !.call = "sensors_init",
               !.ch = [c \in Channels |->
                   CASE c = "brew" ->
                            [ZeroChannel EXCEPT
                                !.median = filter_median_init(MEDIAN_FILTER_SIZE_BREW_NTC),
                                !.avg = filter_moving_avg_init(FILTER_SIZE_BREW_NTC),
                                !.stored = 250]
                     [] c = "steam" ->
                            [ZeroChannel EXCEPT
                                !.median = filter_median_init(MEDIAN_FILTER_SIZE_STEAM_NTC),
                                !.avg = filter_moving_avg_init(FILTER_SIZE_STEAM_NTC),
                                !.stored = 250]
                     [] c = "pressure" ->
                            [ZeroChannel EXCEPT
                                !.median = filter_median_init(MEDIAN_FILTER_SIZE_PRESSURE),
                                !.avg = filter_moving_avg_init(FILTER_SIZE_PRESSURE),
                                !.stored = 0]]]
    /\ UNCHANGED outsideSensors

\* What a channel can deliver in a call: the channel of the run whose
\* samples vary delivers anything its wiring allows, the two others their
\* valid reading; a pressure channel without a pin delivers nothing.
SamplesOf(c) ==
    IF c = "pressure" /\ ~sens.pressure_pin
    THEN {AbsentSample}
    ELSE IF c = sens.varied
         THEN {ValidOf(c), InvalidSample}
                  \cup (IF c = "pressure" THEN {} ELSE {AbsentSample})
         ELSE {ValidOf(c)}

\* Every sample of every channel.
AllSamples == {AbsentSample, InvalidSample} \cup {ValidOf(c) : c \in Channels}

\* sensors_read(), with the hardware abstraction in use and sensors_init
\* done.
SensorsRead(samples) ==
    /\ sens.initialised
    /\ \A c \in Channels : samples[c] \in SamplesOf(c)
    /\ sens.reads < MaxReads
    /\ sens' = [sens EXCEPT
                   !.ch = [c \in Channels |->
                              SensorsReadChannel(c, sens.ch[c], samples[c])],
                   !.before = sens.ch,
                   !.samples = samples,
                   !.logged = {c \in Channels :
                                  ErrorLogged(sens.ch[c], samples[c])},
                   !.call = "sensors_read",
                   !.reads = @ + 1]
    /\ UNCHANGED outsideSensors

SensorsNext ==
    \/ \E varied \in Channels, pressure_pin \in BOOLEAN :
           SensorsInit(varied, pressure_pin)
    \/ \E samples \in [Channels -> AllSamples] : SensorsRead(samples)

SensorsSpec == OtaIdle /\ [][SensorsNext]_vars

(***************************************************************************)
(* Properties of the sensor channels.                                      *)
(***************************************************************************)
\* C28: a channel is in the fault state only once the threshold of
\* consecutive invalid samples is reached, so never after one invalid sample
\* between valid ones; and a valid sample sets the count to 0 and clears the
\* fault.
C28_FaultOnlyAfterThreshold ==
    \A c \in Channels :
        /\ sens.ch[c].fault => sens.ch[c].error_count >= SENSOR_ERROR_THRESHOLD
        /\ (sens.call = "sensors_read" /\ sens.samples[c].kind = "valid")
               => /\ sens.ch[c].error_count = 0
                  /\ ~sens.ch[c].fault

\* C29: a sensors_read call in which a channel delivers an invalid reading
\* or none leaves the stored value and both filters of that channel as they
\* were; a valid reading goes through the median, then the moving average,
\* and is stored.
C29_OnlyValidSamplesAreFiltered ==
    sens.call = "sensors_read" =>
        \A c \in Channels :
            LET was == sens.before[c]
                now == sens.ch[c]
            IN  IF sens.samples[c].kind = "valid"
                THEN LET median == filter_median_update(was.median,
                                                        sens.samples[c].value)
                         avg == filter_moving_avg_update(was.avg, MedianOf(median))
                     IN  /\ now.median = median
                         /\ now.avg = avg
                         /\ now.stored = Quot(MovingAverageOf(avg), 10)
                ELSE /\ now.median = was.median
                     /\ now.avg = was.avg
                     /\ now.stored = was.stored

(***************************************************************************)
(* Part 9.  Where reception writes: the chunk loop of                      *)
(* bootloader_receive_firmware one accepted chunk at a time, for streams   *)
(* as long as the sender cares to make them.  The bytes and the deadlines  *)
(* are those of Part 1; here only the offsets are kept.                    *)
(***************************************************************************)
\* The sender stops at the latest when this much has been accepted.
MaxReceived == 1049088

\* The sizes of the chunks of a stream.
ChunkSizes == {128, 256}

\* "current_page_start & ~(FLASH_SECTOR_SIZE - 1)".
SectStart(offset) == offset - (offset % FLASH_SECTOR_SIZE)

\* "if (!sector_erased || (sect_start != current_sector))".
NeedsErase(r) ==
    ~r.sector_erased \/ SectStart(r.current_page_start) # r.current_sector

\* flash_bootloader_erase(sect_start, FLASH_SECTOR_SIZE) if needed; erase_ok
\* is what it returns.
ErasePage(r, erase_ok) ==
    IF NeedsErase(r)
    THEN [r EXCEPT !.erase = <<SectStart(r.current_page_start)>>,
                   !.erased = IF erase_ok THEN @ \cup {SectStart(r.current_page_start)}
                              ELSE @]
    ELSE r

\* flash_bootloader_program(current_page_start, page_buffer, FLASH_PAGE_SIZE);
\* program_ok is what it returns.
ProgramPage(r, program_ok) ==
    [r EXCEPT !.program = <<r.current_page_start>>,
              !.written = IF program_ok THEN @ \cup {SectStart(r.current_page_start)}
                          ELSE @]

\* The loop's note of the erase: "sector_erased = true; current_sector =
\* sect_start;".
NoteErase(r) ==
    IF NeedsErase(r)
    THEN [r EXCEPT !.sector_erased = TRUE,
                   !.current_sector = SectStart(r.current_page_start)]
    ELSE r

\* bootloader_receive_firmware is entered; the sender has a stream of
\* chunks of one size.
ReceiveStart(size) ==
    /\ rcv.phase \notin {"receiving", "accepted"}
    /\ rcv' = [ReceptionIdle EXCEPT !.phase = "receiving", !.chunk = size]
    /\ UNCHANGED outsideReception

\* One turn of the chunk loop for a chunk with the expected number, a size
\* of 1..BOOTLOADER_CHUNK_MAX_SIZE and a matching checksum: the page buffer
\* is filled, and written when it is full; a failed erase or program ends
\* the session.  The counters are uint32_t and stay far from wrapping within
\* MaxReceived.
ReceiveChunk(size, erase_ok, program_ok) ==
    /\ rcv.phase = "receiving"
    /\ size = rcv.chunk
    /\ rcv.g_received_size < MaxReceived
    /\ LET filled == rcv.page_buffer_offset + size
           cleared == [rcv EXCEPT !.erase = <<>>, !.program = <<>>]
           counted == [cleared EXCEPT
                          !.g_received_size = @ + size,
                          !.g_chunk_count = @ + 1]
           full == [cleared EXCEPT !.page_buffer_offset = FLASH_PAGE_SIZE]
       IN  rcv' = IF filled < FLASH_PAGE_SIZE
                  THEN [counted EXCEPT !.page_buffer_offset = filled]
                  ELSE IF NeedsErase(rcv) /\ ~erase_ok
                  THEN [ErasePage(full, FALSE) EXCEPT !.phase = "rejected"]
                  ELSE IF ~program_ok
                  THEN [ProgramPage(NoteErase(ErasePage(full, TRUE)), FALSE)
                           EXCEPT !.phase = "rejected"]
                  ELSE [ProgramPage(NoteErase(ErasePage(counted, TRUE)), TRUE) EXCEPT
                           !.current_page_start = @ + FLASH_PAGE_SIZE,
                           !.page_buffer_offset = filled - FLASH_PAGE_SIZE]
    /\ UNCHANGED outsideReception

\* The end marker: the page buffer is flushed with the results of the erase
\* and of the program operation not looked at, the image is verified
\* (verified says that the vector table and the CRC pass) and the size is
\* validated.
ReceiveEnd(verified, erase_ok, program_ok) ==
    /\ rcv.phase = "receiving"
    /\ LET cleared == [rcv EXCEPT !.erase = <<>>, !.program = <<>>]
           flushed == IF rcv.page_buffer_offset > 0
                      THEN ProgramPage(ErasePage(cleared, erase_ok), program_ok)
                      ELSE cleared
           sectors == (rcv.g_received_size + FLASH_SECTOR_SIZE - 1)
                          \div FLASH_SECTOR_SIZE
           accepted == /\ verified
                       /\ rcv.g_received_size # 0
                       /\ rcv.g_received_size <= MAX_FIRMWARE_SIZE
                       /\ sectors # 0
                       /\ sectors <= MAX_SECTOR_COUNT
       IN  rcv' = [flushed EXCEPT
                      !.phase = IF accepted THEN "accepted" ELSE "rejected"]
    /\ UNCHANGED outsideReception

\* copy_firmware_to_main(g_received_size) up to its return or the reset:
\* the size checks, the check against the preload buffer, then every sector
\* of the image.
CopyFirmwareToMain ==
    /\ rcv.phase = "accepted"
    /\ LET firmware_size == rcv.g_received_size
           sector_count == SectorCount(firmware_size)
           returns == \/ firmware_size = 0
                      \/ firmware_size > MAX_FIRMWARE_SIZE
                      \/ sector_count = 0
                      \/ sector_count > MAX_SECTOR_COUNT
                      \/ firmware_size > FIRMWARE_PRELOAD_BUFFER_SIZE
       IN  rcv' = [rcv EXCEPT
                      !.erase = <<>>,
                      !.program = <<>>,
                      !.phase = IF returns THEN "copy_returned" ELSE "installed",
                      !.copied = IF returns THEN 0 ELSE sector_count]
    /\ UNCHANGED outsideReception

ReceptionNext ==
    \/ \E size \in ChunkSizes : ReceiveStart(size)
    \/ \E size \in ChunkSizes, erase_ok, program_ok \in BOOLEAN :
           ReceiveChunk(size, erase_ok, program_ok)
    \/ \E verified, erase_ok, program_ok \in BOOLEAN :
           ReceiveEnd(verified, erase_ok, program_ok)
    \/ CopyFirmwareToMain

ReceptionSpec == OtaIdle /\ [][ReceptionNext]_vars

\* The staging region: MAX_FIRMWARE_SIZE bytes from FLASH_TARGET_OFFSET.
InStaging(offset, length) ==
    /\ FLASH_TARGET_OFFSET <= offset
    /\ offset + length <= FLASH_TARGET_OFFSET + MAX_FIRMWARE_SIZE

(***************************************************************************)
(* Properties of reception's writes.                                       *)
(***************************************************************************)
\* C30: whatever the number of chunks accepted, every sector erased and
\* every page programmed during reception lies within the staging region,
\* so a stream longer than the maximum image is rejected before anything
\* is written past the region.
C30_ReceptionWritesStagingOnly ==
    /\ \A i \in 1..Len(rcv.erase) : InStaging(rcv.erase[i], FLASH_SECTOR_SIZE)
    /\ \A i \in 1..Len(rcv.program) : InStaging(rcv.program[i], FLASH_PAGE_SIZE)

\* C31: once the final acknowledgement is sent, copy_firmware_to_main does
\* not return: it erases and programs every sector of the image in the
\* active region and ends in the reset.
C31_AckedImageIsInstalled ==
    rcv.phase \in {"installed", "copy_returned"} =>
        /\ rcv.phase = "installed"
        /\ rcv.copied = SectorCount(rcv.g_received_size)

(***************************************************************************)
(* What reception leaves in the staging region.                            *)
(***************************************************************************)
\* The payloads of the chunks accepted so far: chunks are taken in sequence
\* only, so they are the first g_chunk_count the sender numbered in turn.
Accepted == SubSeq(sent_names, 1, g_chunk_count)

\* The end of the page that holds byte size - 1.
PageEnd(size) == ((size + FLASH_PAGE_SIZE - 1) \div FLASH_PAGE_SIZE) * FLASH_PAGE_SIZE

\* The reception loop has ended at the end of the stream and the final page
\* has been written.
Flushed == pc = "vector_check"

\* C32: when the loop has ended at the end of the stream and the final page
\* has been flushed, g_received_size is the sum of the accepted chunk lengths
\* and the staging region holds the accepted payloads in order, the rest of
\* the last page being 0xFF.
C32_StagingHoldsAcceptedPayloads ==
    Flushed =>
        /\ g_chunk_count <= Len(sent_names)
        /\ g_received_size = Len(ImageOf(Accepted))
        /\ ReadRange(staging, PageEnd(g_received_size))
               = PadFF(ImageOf(Accepted), PageEnd(g_received_size))

\* The chunk loop of bootloader_receive_firmware.
InLoop == pc \in {"loop_top", "hdr_b1", "hdr_b2", "hdr_h6", "end_b2", "end_b3",
                  "chunk_data", "drain_end"}

\* The 0xAA bytes among those written to the UART.
ChunkAcks(bytes) == Cardinality({k \in 1..Len(bytes) : bytes[k] = 170})

\* The session's data so far: the pages written and the page buffer.
Buffered == ReadRange(staging, StagingAt(current_page_start)) \o page_buffer

\* C33: in the chunk loop the acknowledgements 0xAA sent number g_chunk_count;
\* a step of the loop sends one exactly when it counts a chunk, that chunk
\* carries the expected number and a matching checksum, and by then its
\* payload is in the page buffer or in the page just programmed; a step that
\* counts no chunk sends none.
C33_OneAckPerAcceptedChunk ==
    /\ [](InLoop => ChunkAcks(tx) = g_chunk_count)
    /\ [][InLoop =>
            /\ ChunkAcks(tx') - ChunkAcks(tx) = g_chunk_count' - g_chunk_count
            /\ g_chunk_count' # g_chunk_count =>
                 /\ pc = "chunk_data"
                 /\ g_chunk_count' = g_chunk_count + 1
                 /\ chunk_num = LE32(g_chunk_count)
                 /\ XorChecksum(SubSeq(rx, 1, chunk_size)) = rx[chunk_size + 1]
                 /\ tx' = Append(tx, 170)
                 /\ Buffered' = Buffered \o SubSeq(rx, 1, chunk_size)]_vars

\* Two chunks are acknowledged, the first of which filled a page that was
\* programmed.
C33_Witness ==
    /\ InLoop
    /\ g_chunk_count = 2
    /\ ChunkAcks(tx) = 2
    /\ current_page_start = FLASH_TARGET_OFFSET + FLASH_PAGE_SIZE
    /\ Len(page_buffer) = 1

\* C34: a page is programmed into staging, the final partial page included,
\* only in a sector the session has erased; no sector is erased a second
\* time, and none is erased once a page of it has been programmed.
C34_StagingFlashDiscipline ==
    /\ [](\A i \in 1..Len(rcv.program) : SectStart(rcv.program[i]) \in rcv.erased)
    /\ [][\A i \in 1..Len(rcv'.erase) :
              /\ rcv'.erase[i] \notin rcv.erased
              /\ rcv'.erase[i] \notin rcv.written]_vars

(***************************************************************************)
(* The stored snapshot of the status change detector after a call.         *)
(***************************************************************************)
\* The float fields hasChanged gives to floatChanged, with their thresholds,
\* and the integer fields it compares with a threshold.
FloatThresholds ==
    [brew_temp |-> STATUS_TEMP_THRESHOLD, brew_setpoint |-> STATUS_TEMP_THRESHOLD,
     steam_temp |-> STATUS_TEMP_THRESHOLD, steam_setpoint |-> STATUS_TEMP_THRESHOLD,
     group_temp |-> STATUS_TEMP_THRESHOLD, pressure |-> STATUS_PRESSURE_THRESHOLD,
     brew_weight |-> STATUS_WEIGHT_THRESHOLD, flow_rate |-> STATUS_FLOW_RATE_THRESHOLD,
     target_weight |-> STATUS_WEIGHT_THRESHOLD]
IntThresholds == [power_watts |-> STATUS_POWER_THRESHOLD, wifi_rssi |-> 10]

\* The boolean and enum fields hasChanged compares.
ExactFields ==
    {"machine_state", "heating_strategy", "is_heating", "is_brewing",
     "pico_connected", "wifi_connected", "mqtt_connected", "scale_connected",
     "cloud_connected", "water_low", "alarm_active", "cleaning_reminder",
     "wifi_ap_mode"}

\* Two floats differ by less than the threshold: fabsf(a - b) < threshold.
Within(a, b, threshold) ==
    /\ a # NaN
    /\ b # NaN
    /\ Abs(a[1] - b[1]) < threshold

\* Both are numbers.
Numbers(a, b) == a # NaN /\ b # NaN

\* A thresholded field of snapshot a is at least its threshold away from
\* that of snapshot b.
ReachesThreshold(a, b) ==
    \/ \E f \in DOMAIN FloatThresholds :
           Numbers(a[f], b[f]) /\ Abs(a[f][1] - b[f][1]) >= FloatThresholds[f]
    \/ \E f \in DOMAIN IntThresholds : Abs(a[f] - b[f]) >= IntThresholds[f]

\* hasChanged stores the snapshot exactly when it returns true.
StoredIffReturned ==
    det._previous = (IF det.returned THEN det.current ELSE det.before)

\* C35 as stated: hasChanged stores the snapshot exactly when it returns
\* true; after every call the snapshot passed differs from the stored one by
\* less than the threshold in every thresholded field and equals it in every
\* boolean and enum field; a snapshot whose difference from the stored one
\* reaches a threshold is reported.
C35_StoredSnapshotWithinThresholds ==
    det.call # "none" =>
        /\ StoredIffReturned
        /\ \A f \in DOMAIN FloatThresholds :
               Within(det.current[f], det._previous[f], FloatThresholds[f])
        /\ \A f \in DOMAIN IntThresholds :
               Abs(det.current[f] - det._previous[f]) < IntThresholds[f]
        /\ \A f \in ExactFields : det.current[f] = det._previous[f]
        /\ ReachesThreshold(det.current, det.before) => det.returned

\* C35, amended: as stated, for the thresholded float fields that are
\* numbers in both snapshots; a NaN in the snapshot passed or in the stored
\* one makes fabsf(a - b) >= threshold false, so that field is not reported
\* and is not within the threshold either.
C35_StoredNumbersWithinThresholds ==
    det.call # "none" =>
        /\ StoredIffReturned
        /\ \A f \in DOMAIN FloatThresholds :
               Numbers(det.current[f], det._previous[f]) =>
                   Within(det.current[f], det._previous[f], FloatThresholds[f])
        /\ \A f \in DOMAIN IntThresholds :
               Abs(det.current[f] - det._previous[f]) < IntThresholds[f]
        /\ \A f \in ExactFields : det.current[f] = det._previous[f]
        /\ ReachesThreshold(det.current, det.before) => det.returned

\* C35 happens: after a step of 0.2 degrees that was not reported, a further
\* step of 0.3 degrees is, the brew temperature being then 0.5 degrees from
\* the stored one, and the snapshot is stored.
C35_Witness ==
    /\ det.call = "other"
    /\ det.drift
    /\ det.returned
    /\ det.before.brew_temp = Float(921)
    /\ det.current.brew_temp = Float(926)
    /\ det._previous = det.current

\* What hasChanged(current) would return in the present state.
WouldReturn(current) == ~det._initialized \/ Changed(current, det._previous)

\* C36: getChangedFields(current) marks a group exactly when hasChanged
\* (current), called in the same state, would return true, and a call of
\* getChangedFields changes neither the stored snapshot nor the initialised
\* flag.
C36_ChangedFieldsAgreeWithHasChanged ==
    /\ [](det.queried => (det.fields # {} <=> WouldReturn(det.asked)))
    /\ [][det'.queried => /\ det'._previous = det._previous
                          /\ det'._initialized = det._initialized]_vars

\* C36 happens: on an initialised detector, during a brew, a snapshot that
\* differs from the stored one in the brew time only has the brew time
\* group marked and no other.
C36_Witness ==
    /\ det.queried
    /\ det._initialized
    /\ det.asked.is_brewing
    /\ det.asked = [det._previous EXCEPT !.brew_time_ms = det.asked.brew_time_ms]
    /\ det.fields = {"brew_time"}

(***************************************************************************)
(* Part 10.  The deferred save of the power meter configuration            *)
(* (power_meter.c): power_meter_request_save on one core,                  *)
(* power_meter_process_pending_save on the other.  g_pending_save is a     *)
(* volatile bool: a load or a store of it is one step.                     *)
(***************************************************************************)
\* No more requests than this are made.
MaxRequests == 6

\* Variant: the request leaves the flag as it is.
RequestDropped(flag) == flag

\* power_meter_request_save: "g_pending_save = true;".
RequestSet(flag) == TRUE

\* power_meter_request_save().
RequestSave ==
    /\ sv.requests < MaxRequests
    /\ sv' = [sv EXCEPT !.g_pending_save = RequestSet(@),
                        !.requests = @ + 1,
                        !.unserved = TRUE]
    /\ UNCHANGED outsideSave

\* power_meter_process_pending_save is called: "if (!g_pending_save) return
\* false;".
ProcessTest ==
    /\ sv.pc = "out"
    /\ sv' = [sv EXCEPT !.pc = IF sv.g_pending_save THEN "clear" ELSE "out",
                        !.call_saves = 0,
                        !.returned = FALSE]
    /\ UNCHANGED outsideSave

\* "g_pending_save = false;".
ProcessClear ==
    /\ sv.pc = "clear"
    /\ sv' = [sv EXCEPT !.g_pending_save = FALSE, !.pc = "save"]
    /\ UNCHANGED outsideSave

\* "return power_meter_save_config();": the configuration as it is now goes
\* to config_persistence_save_power_meter, whose result is returned.
ProcessSave(saved) ==
    /\ sv.pc = "save"
    /\ sv' = [sv EXCEPT !.pc = "out",
                        !.saves = @ + 1,
                        !.call_saves = @ + 1,
                        !.unserved = FALSE,
                        !.returned = saved]
    /\ UNCHANGED outsideSave

\* The steps of power_meter_process_pending_save.
ProcessPendingSave ==
    \/ ProcessTest
    \/ ProcessClear
    \/ \E saved \in BOOLEAN : ProcessSave(saved)

SaveNext ==
    \/ RequestSave
    \/ ProcessPendingSave

SaveSpec == OtaIdle /\ [][SaveNext]_vars

\* power_meter_process_pending_save keeps being called, and a call that has
\* started goes on.
SaveFairSpec == SaveSpec /\ WF_vars(ProcessPendingSave)

(***************************************************************************)
(* Properties of the deferred save.                                        *)
(***************************************************************************)
\* C37: every request is followed by a power_meter_save_config, however the
\* two functions interleave; between calls a clear flag means that no
\* request is waiting; there are no more saves than requests, and a call
\* saves at most once.
C37_NoRequestLost ==
    /\ sv.unserved ~> ~sv.unserved
    /\ []((sv.pc = "out" /\ ~sv.g_pending_save) => ~sv.unserved)
    /\ [](sv.saves <= sv.requests)
    /\ [](sv.call_saves <= 1)

\* C37 happens: a request came between the clearing of the flag and the
\* save; the save has been done and the flag is still set for the next call.
C37_Witness ==
    /\ sv.pc = "out"
    /\ sv.saves = 1
    /\ sv.requests = 2
    /\ sv.g_pending_save
    /\ ~sv.unserved

(***************************************************************************)
(* The length of a Modbus response taken as complete.                      *)
(***************************************************************************)
\* C38: a response that receive_modbus_response reported complete, and that
\* power_meter_update goes on to verify and parse, holds at least the
\* declared number of data bytes (its byte 2) and the five bytes of address,
\* function code, byte count and CRC.
C38_CompleteResponseHoldsDeclaredData ==
    pm.upd_pc = "verify" =>
        /\ Len(pm.response_buffer) >= 5
        /\ Len(pm.response_buffer) >= pm.response_buffer[3] + 5

(***************************************************************************)
(* The MQTT meter that publishes no last will.                             *)
(***************************************************************************)
\* C39: for a meter that has received no LWT message and has parsed a
\* payload, isConnected() is true while the last successful parse is within
\* the staleness threshold and false once it is older.
C39_FreshnessDecidesWithoutLwt ==
    (~mq.meter.lwt_seen /\ mq.meter.parsed_once) =>
        (isConnected(mq.meter, mq.now) <=> Fresh)

(***************************************************************************)
(* What power_meter_init leaves alone and what it resets.                  *)
(***************************************************************************)
CONNECTION_TIMEOUT_MS == 5000

\* power_meter_is_connected() on the statics p.
power_meter_is_connected(p) ==
    /\ p.initialized
    /\ p.has_ever_read
    /\ p.now - p.last_success_time < CONNECTION_TIMEOUT_MS

\* The pins, the orientation flag and the failure count.
PinState(p) == <<p.uart_tx_pin, p.uart_rx_pin, p.pins_swapped, p.consecutive_failures>>
DefaultPinState == <<UART_TX_PIN_DEFAULT, UART_RX_PIN_DEFAULT, FALSE, 0>>

\* A power_meter_init call that switches the driver off: it is entered and
\* returns in one step, and power_meter_update does nothing meanwhile.
SwitchedOff ==
    /\ pm.init_pc = "idle"
    /\ pm'.init_pc = "idle"
    /\ pm'.upd_pc = pm.upd_pc
    /\ pm'.now = pm.now
    /\ pm' # pm

\* power_meter_init for a meter of the table is entered.
EnteredForMeter == pm.init_pc = "idle" /\ pm'.init_pc = "meter_changed"

\* power_meter_init compares the meter index with the last configured one.
ComparedMeter == pm.init_pc = "meter_changed" /\ pm'.init_pc # "meter_changed"

\* power_meter_init for a meter of the table returns.
ReturnedForMeter == pm.init_pc = "configure" /\ pm'.init_pc = "idle"

\* C40: power_meter_init for the meter index last configured leaves the pins,
\* the orientation flag and the failure count as they are, from its entry
\* to its return, also when the driver was switched off in between; for
\* another meter index it returns with the default pins, not swapped, and a
\* failure count of 0; switching off clears initialized and has_ever_read
\* and leaves the pins and the last configured index, and
\* power_meter_is_connected() is false while has_ever_read is.
C40_InitKeepsOrResetsPins ==
    /\ [][EnteredForMeter => PinState(pm') = PinState(pm)]_vars
    /\ [][(ComparedMeter /\ pm.current_config.meter_index = pm.last_configured_meter)
              => /\ pm'.init_pc = "configure"
                 /\ ~pm'.meter_changed
                 /\ PinState(pm') = PinState(pm)]_vars
    /\ [][ReturnedForMeter
              => /\ pm'.initialized
                 /\ PinState(pm') = (IF pm.meter_changed THEN DefaultPinState
                                     ELSE PinState(pm))]_vars
    /\ [][SwitchedOff
              => /\ ~pm'.initialized
                 /\ ~pm'.has_ever_read
                 /\ PinState(pm') = PinState(pm)
                 /\ pm'.last_configured_meter = pm.last_configured_meter]_vars
    /\ [](power_meter_is_connected(pm) => pm.has_ever_read)

====
